---------------------------- MODULE Spec2Model ----------------------------
(***************************************************************************)
(* State-machine model of the Parquet modular-encryption key tooling:      *)
(* TwoLevelCacheWithExpiration, KeyMaterial (JSON codec), InMemoryKms and   *)
(* PropertiesDrivenCryptoFactory.  Each component has its own              *)
(* specification (SpecCache, SpecKeyMaterial, SpecKms, SpecColumnKeys,      *)
(* SpecFactory) over the shared variables; a component's specification      *)
(* leaves the other components' variables at their initial values.          *)
(***************************************************************************)
EXTENDS Integers, Sequences, FiniteSets, TLC

VARIABLES
    \* TwoLevelCacheWithExpiration
    now,                            \* internal::CurrentTimePoint(), in ms
    cache_,                         \* token -> [item, expiration]
    last_cache_cleanup_timestamp_,
    cache_ret,                      \* the last GetOrCreateInternalCache call and its result
    cache_check,                    \* the last CheckCacheForExpiredTokens call and the last sweep
    \* KeyMaterial
    km_pc,                          \* "start", "serialized", "stored" or "parsed"
    key_material,                   \* the arguments given to CreateSerialized
    key_material_string,            \* the JSON text handed to Parse
    km_edits,                       \* how many members the stored text lost or changed
    km_parsed,                      \* the outcome of Parse
    \* InMemoryKms
    master_key_map_,
    new_master_key_map_,
    kms_rot,                        \* "none", "started" or "finished": the rotation's progress
    kms_wrapped,                    \* the latest key WrapKeyInServer returned
    kms_res,                        \* the last operation and its outcome
    \* PropertiesDrivenCryptoFactory
    ck_call,                        \* the last GetColumnEncryptionProperties call and its outcome
    builder,                        \* the fields of an EncryptionConfiguration::Builder
    built_config,                   \* the configuration build() returned, null before
    fac_res,                        \* the last builder or factory call and its outcome
    \* InternalFileEncryptor
    properties_,                    \* the FileEncryptionProperties the encryptor was built for
    meta_encryptor_,                \* meta_encryptor_128_, _196_, _256_: the cached metadata AesEncryptors
    data_encryptor_,                \* data_encryptor_128_, _196_, _256_: the cached data AesEncryptors
    enc_res,                        \* the last encryptor request and its outcome
    \* SerializedFile and SerializedRowGroup
    source_,                        \* the file a SerializedFile reads, null before Open
    reader_properties_,             \* the ReaderProperties: decryption properties, file AAD, column key map
    file_metadata_,
    file_crypto_metadata_,
    rd_log,                         \* the key retriever and AAD prefix verifier calls so far
    rd_res,                         \* the last reader operation and its outcome
    row_group_ordinal_,             \* the row group of the last RowGroupReader, 0: none
    rd_key_calls,                   \* how often GetKey was called for each column key metadata
    \* the metadata builders (FileMetaDataBuilder, ColumnChunkMetaDataBuilder)
    writer_properties_,             \* the WriterProperties of the builders
    metadata_,                      \* format::FileMetaData under construction, null once moved out
    crypto_metadata_,               \* format::FileCryptoMetaData under construction, or null
    row_groups_,                    \* the row groups appended so far
    column_,                        \* the column of the ColumnChunkMetaDataBuilder, empty: none
    column_metadata_,               \* its format::ColumnMetaData
    column_chunk_,                  \* its format::ColumnChunk
    finished_file_metadata,         \* the FileMetaData that Finish returned
    built_file_crypto_metadata,     \* the FileCryptoMetaData that BuildFileCryptoMetaData produced
    mb_res,                         \* the last builder call and its outcome
    \* RowGroupMetaDataBuilder
    schema_,                        \* the SchemaDescriptor of the row group builder
    row_group_,                     \* its format::RowGroup
    current_column_,                \* the next column to hand out a builder for
    column_builders_,               \* the column chunk builders handed out
    rg_calls,                       \* NextColumnChunk calls since construction
    rg_res                          \* the last row group builder call and its outcome

cacheVars == <<now, cache_, last_cache_cleanup_timestamp_, cache_ret, cache_check>>
kmVars == <<km_pc, key_material, key_material_string, km_edits, km_parsed>>
kmsVars == <<master_key_map_, new_master_key_map_, kms_rot, kms_wrapped, kms_res>>

ckVars == <<ck_call>>
facVars == <<builder, built_config, fac_res>>
encVars == <<properties_, meta_encryptor_, data_encryptor_, enc_res>>
rdVars == <<source_, reader_properties_, file_metadata_, file_crypto_metadata_, rd_log, rd_res, row_group_ordinal_, rd_key_calls>>
mbVars == <<writer_properties_, metadata_, crypto_metadata_, row_groups_, column_, column_metadata_, column_chunk_, finished_file_metadata, built_file_crypto_metadata, mb_res>>

rgVars == <<schema_, row_group_, current_column_, column_builders_, rg_calls, rg_res>>

vars == <<cacheVars, kmVars, kmsVars, ckVars, facVars, encVars, rdVars, mbVars, rgVars>>

\* What each component's actions leave alone.
notCache == <<kmVars, kmsVars, ckVars, facVars, encVars, rdVars, mbVars, rgVars>>
notKm == <<cacheVars, kmsVars, ckVars, facVars, encVars, rdVars, mbVars, rgVars>>
notKms == <<cacheVars, kmVars, ckVars, facVars, encVars, rdVars, mbVars, rgVars>>
notCk == <<cacheVars, kmVars, kmsVars, facVars, encVars, rdVars, mbVars, rgVars>>
notFac == <<cacheVars, kmVars, kmsVars, ckVars, encVars, rdVars, mbVars, rgVars>>
notRd == <<cacheVars, kmVars, kmsVars, ckVars, facVars, encVars, mbVars, rgVars>>
notEnc == <<cacheVars, kmVars, kmsVars, ckVars, facVars, rdVars, mbVars, rgVars>>
notMb == <<cacheVars, kmVars, kmsVars, ckVars, facVars, encVars, rdVars, rgVars>>
notRg == <<cacheVars, kmVars, kmsVars, ckVars, facVars, encVars, rdVars, mbVars>>

-----------------------------------------------------------------------------
(* Generic helpers: std::unordered_map / std::map as functions with a      *)
(* finite domain.                                                           *)

EmptyMap == <<>>

\* std::map::insert / std::unordered_map::insert: keeps an existing element.
MapInsert(m, k, v) == IF k \in DOMAIN m THEN m ELSE m @@ (k :> v)

\* operator[] followed by an assignment that is lost: the map stays as it is.
MapPut_Dropped(m, k, v) == m

\* operator[] followed by assignment: inserts or overwrites.
MapPut(m, k, v) == [x \in DOMAIN m \cup {k} |-> IF x = k THEN v ELSE m[x]]

\* erase(key)
MapErase(m, k) == [x \in DOMAIN m \ {k} |-> m[x]]

-----------------------------------------------------------------------------
(* TwoLevelCacheWithExpiration<V>                                          *)

MaxTime == 4
MaxTtl == 2

Tokens == {"t1", "t2"}
InternalKeys == {"k1", "k2"}
CacheValues == {"v"}
Lifetimes == 1..MaxTtl

\* internal::ExpiringCacheEntry<E>(cached_item, expiration_interval_millis)
ExpiringCacheEntry(item, lifetime_ms, t) ==
    [item |-> item, expiration |-> t + lifetime_ms]

\* internal::ExpiringCacheEntry::IsExpired()
IsExpired(entry, t) == t > entry.expiration

NoRet == [valid |-> FALSE, live |-> FALSE, token |-> "t1", lifetime |-> 1, at |-> 0,
          present |-> FALSE, expired |-> FALSE, item |-> EmptyMap]

\* The clock advances between calls.
Tick ==
    /\ now < MaxTime
    /\ now' = now + 1
    /\ UNCHANGED <<cache_, last_cache_cleanup_timestamp_, cache_ret, cache_check, notCache>>

\* The external map after the conditional insert of GetOrCreateInternalCache.
InsertIfAbsentOrExpired(cache, access_token, lifetime_ms, t) ==
    IF access_token \notin DOMAIN cache \/ IsExpired(cache[access_token], t)
    THEN MapInsert(cache, access_token, ExpiringCacheEntry(EmptyMap, lifetime_ms, t))
    ELSE cache

GetOrCreateInternalCache(access_token, cache_entry_lifetime_ms) ==
    LET present == access_token \in DOMAIN cache_
        expired == present /\ IsExpired(cache_[access_token], now)
        after == InsertIfAbsentOrExpired(cache_, access_token,
                                         cache_entry_lifetime_ms, now)
    IN /\ cache_' = after
       /\ cache_ret' = [valid |-> TRUE, live |-> TRUE, token |-> access_token,
                        lifetime |-> cache_entry_lifetime_ms, at |-> now,
                        present |-> present, expired |-> expired,
                        item |-> after[access_token].item]
       /\ UNCHANGED <<now, last_cache_cleanup_timestamp_, cache_check, notCache>>

\* The caller stores a value through the reference the last call returned.
InsertIntoInternal(k, v) ==
    /\ cache_ret.valid /\ cache_ret.live
    /\ cache_ret.token \in DOMAIN cache_
    /\ cache_' = [cache_ EXCEPT ![cache_ret.token].item = MapPut(@, k, v)]
    /\ UNCHANGED <<now, last_cache_cleanup_timestamp_, cache_ret, cache_check, notCache>>

\* The reference held by the caller dangles once its element is erased.
RetAfterErase(erased) ==
    IF cache_ret.valid /\ cache_ret.token \in erased
    THEN [cache_ret EXCEPT !.live = FALSE]
    ELSE cache_ret

RemoveCacheEntriesForToken(access_token) ==
    /\ cache_' = MapErase(cache_, access_token)
    /\ cache_ret' = RetAfterErase({access_token})
    /\ UNCHANGED <<now, last_cache_cleanup_timestamp_, cache_check, notCache>>

RemoveCacheEntriesForAllTokens ==
    /\ cache_' = EmptyMap
    /\ cache_ret' = RetAfterErase(DOMAIN cache_)
    /\ UNCHANGED <<now, last_cache_cleanup_timestamp_, cache_check, notCache>>

ExpiredTokens(cache, t) == {tok \in DOMAIN cache : IsExpired(cache[tok], t)}

\* The external map after RemoveExpiredEntriesFromCache.
WithoutExpired(cache, t) ==
    [tok \in DOMAIN cache \ ExpiredTokens(cache, t) |-> cache[tok]]

\* The record of a CheckCacheForExpiredTokens call. due: the call came more
\* than the period after the most recent sweep of CheckCacheForExpiredTokens
\* (after the construction when there was none). removed_expired: the
\* external map after the call is the one before it without the expired
\* entries. changed_nothing: it is the one before it. last_sweep: the time of
\* the most recent such sweep as of now.
CacheCheck(valid, period, at, since, before, after, last_sweep) ==
    [valid |-> valid, due |-> at > since + period,
     removed_expired |-> after = WithoutExpired(before, at),
     changed_nothing |-> after = before, last_sweep |-> last_sweep]

NoCacheCheck == CacheCheck(FALSE, 1, 0, 0, EmptyMap, EmptyMap, 0)

RemoveExpiredEntriesFromCache ==
    /\ cache_' = WithoutExpired(cache_, now)
    /\ cache_ret' = RetAfterErase(ExpiredTokens(cache_, now))
    /\ UNCHANGED <<now, last_cache_cleanup_timestamp_, cache_check, notCache>>

CheckCacheForExpiredTokens(cache_cleanup_period) ==
    IF now > last_cache_cleanup_timestamp_ + cache_cleanup_period
    THEN /\ cache_' = WithoutExpired(cache_, now)
         /\ cache_ret' = RetAfterErase(ExpiredTokens(cache_, now))
         /\ last_cache_cleanup_timestamp_' = now + cache_cleanup_period
         /\ cache_check' = CacheCheck(TRUE, cache_cleanup_period, now,
                                      cache_check.last_sweep, cache_,
                                      WithoutExpired(cache_, now), now)
         /\ UNCHANGED <<now, notCache>>
    ELSE /\ cache_check' = CacheCheck(TRUE, cache_cleanup_period, now,
                                      cache_check.last_sweep, cache_, cache_,
                                      cache_check.last_sweep)
         /\ UNCHANGED <<now, cache_, last_cache_cleanup_timestamp_, cache_ret,
                        notCache>>

CacheNext ==
    \/ Tick
    \/ \E tok \in Tokens, ttl \in Lifetimes : GetOrCreateInternalCache(tok, ttl)
    \/ \E k \in InternalKeys, v \in CacheValues : InsertIntoInternal(k, v)
    \/ \E tok \in Tokens : RemoveCacheEntriesForToken(tok)
    \/ RemoveCacheEntriesForAllTokens
    \/ RemoveExpiredEntriesFromCache
    \/ \E p \in Lifetimes : CheckCacheForExpiredTokens(p)

\* C1: whenever GetOrCreateInternalCache is called for a token whose entry has
\* expired, it returns an empty internal map under a new expiration
\* (call time + lifetime), never the contents stored before the expiry.
C1_ExpiredEntryReplaced ==
    (cache_ret.valid /\ cache_ret.expired /\ cache_ret.live)
    => /\ cache_ret.item = EmptyMap
       /\ cache_[cache_ret.token].expiration = cache_ret.at + cache_ret.lifetime

\* C25: every CheckCacheForExpiredTokens(p) call made more than p
\* milliseconds after the most recent sweep (after the construction when
\* there was no sweep yet) removes every expired token entry and keeps every
\* other one; a call made within p milliseconds of it changes nothing.
C25_SweepAfterPeriod ==
    cache_check.valid =>
        IF cache_check.due
        THEN cache_check.removed_expired
        ELSE cache_check.changed_nothing

-----------------------------------------------------------------------------
(* KeyMaterial: the JSON codec of key_material.cc.  A JSON text is either   *)
(* an object (a map from member names to values), another JSON value, or a  *)
(* text rapidjson cannot parse.  A member value is a string or a boolean.   *)

KEY_MATERIAL_TYPE_FIELD == "keyMaterialType"
KEY_MATERIAL_TYPE1 == "PKMT1"
KEY_MATERIAL_INTERNAL_STORAGE_FIELD == "internalStorage"
IS_FOOTER_KEY_FIELD == "isFooterKey"
DOUBLE_WRAPPING_FIELD == "doubleWrapping"
KMS_INSTANCE_ID_FIELD == "kmsInstanceID"
KMS_INSTANCE_URL_FIELD == "kmsInstanceURL"
MASTER_KEY_ID_FIELD == "masterKeyID"
WRAPPED_DEK_FIELD == "wrappedDEK"
KEK_ID_FIELD == "keyEncryptionKeyID"
WRAPPED_KEK_FIELD == "wrappedKEK"

MaxEdits == 1

JString(s) == [t |-> "string", s |-> s, b |-> FALSE]
JBool(b) == [t |-> "bool", s |-> "", b |-> b]

JsonObject(members) == [kind |-> "object", members |-> members]
JsonArray == [kind |-> "array", members |-> EmptyMap]
JsonParseError == [kind |-> "invalid", members |-> EmptyMap]

\* rapidjson AddMember: appends a member to the object.
AddMember(members, name, value) == members @@ (name :> value)

\* KeyMaterial::KeyMaterial(...)
KeyMaterial(is_footer_key, kms_instance_id, kms_instance_url, master_key_id, is_double_wrapped, kek_id, encoded_wrapped_kek, encoded_wrapped_dek) ==
    [is_footer_key_ |-> is_footer_key,
     kms_instance_id_ |-> kms_instance_id,
     kms_instance_url_ |-> kms_instance_url,
     master_key_id_ |-> master_key_id,
     is_double_wrapped_ |-> is_double_wrapped,
     kek_id_ |-> kek_id,
     encoded_wrapped_kek_ |-> encoded_wrapped_kek,
     encoded_wrapped_dek_ |-> encoded_wrapped_dek]

\* A mutant of CreateSerialized: the KEK id member receives the wrapped KEK.
CreateSerialized_KekSwapped(is_footer_key, kms_instance_id, kms_instance_url, master_key_id, is_double_wrapped, kek_id, encoded_wrapped_kek, encoded_wrapped_dek, is_internal_storage) ==
    LET m1 == AddMember(EmptyMap, KEY_MATERIAL_TYPE_FIELD, JString(KEY_MATERIAL_TYPE1))
        m2 == IF is_internal_storage
              THEN AddMember(m1, KEY_MATERIAL_INTERNAL_STORAGE_FIELD, JBool(TRUE))
              ELSE m1
        m3 == AddMember(m2, IS_FOOTER_KEY_FIELD, JBool(is_footer_key))
        m4 == IF is_footer_key
              THEN AddMember(AddMember(m3, KMS_INSTANCE_ID_FIELD, JString(kms_instance_id)),
                             KMS_INSTANCE_URL_FIELD, JString(kms_instance_url))
              ELSE m3
        m5 == AddMember(m4, MASTER_KEY_ID_FIELD, JString(master_key_id))
        m6 == AddMember(m5, WRAPPED_DEK_FIELD, JString(encoded_wrapped_dek))
        m7 == AddMember(m6, DOUBLE_WRAPPING_FIELD, JBool(is_double_wrapped))
        m8 == IF is_double_wrapped
              THEN AddMember(AddMember(m7, KEK_ID_FIELD, JString(encoded_wrapped_kek)),
                             WRAPPED_KEK_FIELD, JString(encoded_wrapped_kek))
              ELSE m7
    IN JsonObject(m8)

\* KeyMaterial::CreateSerialized
CreateSerialized(is_footer_key, kms_instance_id, kms_instance_url, master_key_id, is_double_wrapped, kek_id, encoded_wrapped_kek, encoded_wrapped_dek, is_internal_storage) ==
    LET m1 == AddMember(EmptyMap, KEY_MATERIAL_TYPE_FIELD, JString(KEY_MATERIAL_TYPE1))
        m2 == IF is_internal_storage
              THEN AddMember(m1, KEY_MATERIAL_INTERNAL_STORAGE_FIELD, JBool(TRUE))
              ELSE m1
        m3 == AddMember(m2, IS_FOOTER_KEY_FIELD, JBool(is_footer_key))
        m4 == IF is_footer_key
              THEN AddMember(AddMember(m3, KMS_INSTANCE_ID_FIELD, JString(kms_instance_id)),
                             KMS_INSTANCE_URL_FIELD, JString(kms_instance_url))
              ELSE m3
        m5 == AddMember(m4, MASTER_KEY_ID_FIELD, JString(master_key_id))
        m6 == AddMember(m5, WRAPPED_DEK_FIELD, JString(encoded_wrapped_dek))
        m7 == AddMember(m6, DOUBLE_WRAPPING_FIELD, JBool(is_double_wrapped))
        m8 == IF is_double_wrapped
              THEN AddMember(AddMember(m7, KEK_ID_FIELD, JString(kek_id)),
                             WRAPPED_KEK_FIELD, JString(encoded_wrapped_kek))
              ELSE m7
    IN JsonObject(m8)

(* rapidjson's operator[] and GetString/GetBool check their preconditions   *)
(* with RAPIDJSON_ASSERT only.  A build with assertions aborts on a missing *)
(* or wrongly typed member; a build without them reads the null value that  *)
(* operator[] returns: GetBool yields false, GetString yields a null        *)
(* pointer from which the std::string is constructed (undefined).           *)
Builds == {"assert", "noassert"}

\* document[name].GetString()
GetString(members, name, build) ==
    IF name \in DOMAIN members /\ members[name].t = "string"
    THEN [fault |-> "none", s |-> members[name].s, b |-> FALSE]
    ELSE [fault |-> IF build = "assert" THEN "abort" ELSE "crash", s |-> "", b |-> FALSE]

\* document[name].GetBool()
GetBool(members, name, build) ==
    IF name \in DOMAIN members /\ members[name].t = "bool"
    THEN [fault |-> "none", s |-> "", b |-> members[name].b]
    ELSE IF build = "assert"
         THEN [fault |-> "abort", s |-> "", b |-> FALSE]
         ELSE [fault |-> "none", s |-> "", b |-> FALSE]

NoAccess == [fault |-> "none", s |-> "", b |-> FALSE]

NoKeyMaterial == KeyMaterial(FALSE, "", "", "", FALSE, "", "", "")

Returned(km) == [kind |-> "ok", km |-> km]
Threw == [kind |-> "ParquetException", km |-> NoKeyMaterial]
Fault(f) == [kind |-> f, km |-> NoKeyMaterial]

\* KeyMaterial::Parse(const rapidjson::Document&)
ParseDocument(members, build) ==
    LET is_footer_key == GetBool(members, IS_FOOTER_KEY_FIELD, build)
        footer == is_footer_key.fault = "none" /\ is_footer_key.b
        kms_instance_id == IF footer THEN GetString(members, KMS_INSTANCE_ID_FIELD, build)
                           ELSE NoAccess
        kms_instance_url == IF footer THEN GetString(members, KMS_INSTANCE_URL_FIELD, build)
                            ELSE NoAccess
        master_key_id == GetString(members, MASTER_KEY_ID_FIELD, build)
        encoded_wrapped_dek == GetString(members, WRAPPED_DEK_FIELD, build)
        is_double_wrapped == GetBool(members, DOUBLE_WRAPPING_FIELD, build)
        double == is_double_wrapped.fault = "none" /\ is_double_wrapped.b
        kek_id == IF double THEN GetString(members, KEK_ID_FIELD, build) ELSE NoAccess
        encoded_wrapped_kek == IF double THEN GetString(members, WRAPPED_KEK_FIELD, build)
                               ELSE NoAccess
        \* the accesses in program order; the first fault ends the call
        accesses == <<is_footer_key, kms_instance_id, kms_instance_url, master_key_id,
                      encoded_wrapped_dek, is_double_wrapped, kek_id, encoded_wrapped_kek>>
        faults == SelectSeq(accesses, LAMBDA a : a.fault # "none")
    IN IF faults # <<>>
       THEN Fault(faults[1].fault)
       ELSE Returned(KeyMaterial(is_footer_key.b, kms_instance_id.s, kms_instance_url.s,
                                 master_key_id.s, is_double_wrapped.b, kek_id.s,
                                 encoded_wrapped_kek.s, encoded_wrapped_dek.s))

\* KeyMaterial::Parse(const std::string&)
Parse(text, build) ==
    IF text.kind # "object"
    THEN Threw
    ELSE LET key_material_type == GetString(text.members, KEY_MATERIAL_TYPE_FIELD, build)
         IN IF key_material_type.fault # "none"
            THEN Fault(key_material_type.fault)
            ELSE IF KEY_MATERIAL_TYPE1 # key_material_type.s
                 THEN Threw
                 ELSE ParseDocument(text.members, build)

\* The values the model gives each string argument: empty or one value of its own.
KmsInstanceIds == {"", "kms1"}
KmsInstanceUrls == {"", "url1"}
MasterKeyIds == {"", "mk1"}
KekIds == {"", "kek1"}
WrappedKeks == {"", "wkek1"}
WrappedDeks == {"", "wdek1"}
OtherTypes == {"PKMT2", ""}

NoParse == [kind |-> "none", km |-> NoKeyMaterial]

\* A caller serializes a key material.
CallCreateSerialized ==
    /\ km_pc = "start"
    /\ \E is_footer_key \in BOOLEAN, is_double_wrapped \in BOOLEAN,
          is_internal_storage \in BOOLEAN,
          kms_instance_id \in KmsInstanceIds, kms_instance_url \in KmsInstanceUrls,
          master_key_id \in MasterKeyIds, kek_id \in KekIds,
          encoded_wrapped_kek \in WrappedKeks, encoded_wrapped_dek \in WrappedDeks :
          /\ key_material' = KeyMaterial(is_footer_key, kms_instance_id, kms_instance_url,
                                         master_key_id, is_double_wrapped, kek_id,
                                         encoded_wrapped_kek, encoded_wrapped_dek)
          /\ key_material_string' =
                 CreateSerialized(is_footer_key, kms_instance_id, kms_instance_url,
                                  master_key_id, is_double_wrapped, kek_id,
                                  encoded_wrapped_kek, encoded_wrapped_dek,
                                  is_internal_storage)
    /\ km_pc' = "serialized"
    /\ UNCHANGED <<km_edits, km_parsed, notKm>>

\* A text that is not a JSON object reaches the reader.
StoreNonObject ==
    /\ km_pc = "start"
    /\ key_material_string' \in {JsonArray, JsonParseError}
    /\ km_pc' = "stored"
    /\ UNCHANGED <<key_material, km_edits, km_parsed, notKm>>

\* The stored text lacks a member.
StoreWithoutMember ==
    /\ km_pc \in {"serialized", "stored"}
    /\ km_edits < MaxEdits
    /\ \E name \in DOMAIN key_material_string.members :
          key_material_string' =
              JsonObject(MapErase(key_material_string.members, name))
    /\ km_edits' = km_edits + 1
    /\ km_pc' = "stored"
    /\ UNCHANGED <<key_material, km_parsed, notKm>>

\* The stored text names another key material type.
StoreWithOtherType ==
    /\ km_pc \in {"serialized", "stored"}
    /\ km_edits < MaxEdits
    /\ KEY_MATERIAL_TYPE_FIELD \in DOMAIN key_material_string.members
    /\ \E type \in OtherTypes :
          key_material_string' =
              JsonObject(MapPut(key_material_string.members, KEY_MATERIAL_TYPE_FIELD,
                                JString(type)))
    /\ km_edits' = km_edits + 1
    /\ km_pc' = "stored"
    /\ UNCHANGED <<key_material, km_parsed, notKm>>

CallParse ==
    /\ km_pc \in {"serialized", "stored"}
    /\ \E build \in Builds : km_parsed' = Parse(key_material_string, build)
    /\ km_pc' = "parsed"
    /\ UNCHANGED <<key_material, key_material_string, km_edits, notKm>>

KmNext ==
    \/ CallCreateSerialized
    \/ StoreNonObject
    \/ StoreWithoutMember
    \/ StoreWithOtherType
    \/ CallParse

\* The mode-dependent fields of a well-formed key material are set only in
\* their mode: KMS instance fields for a footer key, KEK fields under double
\* wrapping.
WellFormed(km) ==
    /\ ~km.is_footer_key_ => (km.kms_instance_id_ = "" /\ km.kms_instance_url_ = "")
    /\ ~km.is_double_wrapped_ => (km.kek_id_ = "" /\ km.encoded_wrapped_kek_ = "")

\* C3: for every well-formed key material M, Parse(CreateSerialized(M))
\* returns a KeyMaterial equal to M field by field.
C3_RoundTrip ==
    (km_pc = "parsed" /\ km_edits = 0 /\ key_material_string.kind = "object"
        /\ WellFormed(key_material))
    => (km_parsed.kind = "ok" /\ km_parsed.km = key_material)

C3_Witness ==
    /\ km_pc = "parsed" /\ km_edits = 0
    /\ key_material.is_footer_key_ /\ key_material.is_double_wrapped_
    /\ key_material.kek_id_ = "kek1" /\ key_material.encoded_wrapped_kek_ = "wkek1"
    /\ key_material.kms_instance_id_ = "kms1"
    /\ km_parsed.kind = "ok" /\ km_parsed.km = key_material

\* The members Parse reads for a text: those of the modes the text declares.
RequiredMembers(members) ==
    {IS_FOOTER_KEY_FIELD, DOUBLE_WRAPPING_FIELD, MASTER_KEY_ID_FIELD, WRAPPED_DEK_FIELD}
    \cup (IF IS_FOOTER_KEY_FIELD \in DOMAIN members /\ members[IS_FOOTER_KEY_FIELD].b
          THEN {KMS_INSTANCE_ID_FIELD, KMS_INSTANCE_URL_FIELD} ELSE {})
    \cup (IF DOUBLE_WRAPPING_FIELD \in DOMAIN members /\ members[DOUBLE_WRAPPING_FIELD].b
          THEN {KEK_ID_FIELD, WRAPPED_KEK_FIELD} ELSE {})

HasType1(text) ==
    /\ text.kind = "object"
    /\ KEY_MATERIAL_TYPE_FIELD \in DOMAIN text.members
    /\ text.members[KEY_MATERIAL_TYPE_FIELD] = JString(KEY_MATERIAL_TYPE1)

\* C4: Parse fails with the parse error (a ParquetException) whenever the text
\* is not a JSON object or its keyMaterialType is not "PKMT1" or is absent.
C4_RejectsWrongType ==
    (km_pc = "parsed" /\ ~HasType1(key_material_string))
    => km_parsed.kind = "ParquetException"

\* C5: Parse fails with the parse error (a ParquetException) when the text is
\* of type PKMT1 and lacks a member required for its mode.
C5_RejectsMissingField ==
    (km_pc = "parsed" /\ HasType1(key_material_string)
        /\ ~(RequiredMembers(key_material_string.members)
                \subseteq DOMAIN key_material_string.members))
    => km_parsed.kind = "ParquetException"

-----------------------------------------------------------------------------
(* InMemoryKms (in_memory_kms.cc, the version with key rotation): two       *)
(* process-wide maps from master key id to key bytes.                       *)

MaxKeys == 2

MasterKeyIdentifiers == {"m1", "m2"}
EncodedKeys == {"QQ==", "Qg=="}
DataKeys == {"dek1"}

\* arrow::util::base64_decode on the encoded keys of the model
Base64Decode(encoded) == IF encoded = "QQ==" THEN "A" ELSE "B"

\* An element of the master_keys vector after SplitString(.., ':'): "id:key"
\* gives two parts, a string without ':' gives one.
KeyListEntries ==
    {<<id, key>> : id \in MasterKeyIdentifiers, key \in EncodedKeys} \cup {<<"m1">>}

KeyLists == UNION {[1..n -> KeyListEntries] : n \in 0..MaxKeys}

RECURSIVE ParseKeyListFrom(_, _, _)
ParseKeyListFrom(master_keys, i, key_map) ==
    IF i > Len(master_keys)
    THEN [kind |-> "ok", map |-> key_map]
    ELSE LET parts == master_keys[i]
         IN IF Len(parts) # 2
            THEN [kind |-> "invalid_argument", map |-> EmptyMap]
            ELSE ParseKeyListFrom(master_keys, i + 1,
                                  MapInsert(key_map, parts[1], Base64Decode(parts[2])))

\* InMemoryKms::ParseKeyList
ParseKeyList(master_keys) == ParseKeyListFrom(master_keys, 1, EmptyMap)

\* KeyToolkit::EncryptKeyLocally: AES-GCM under master_key with the aad
EncryptKeyLocally(key_bytes, master_key, aad) ==
    [key |-> key_bytes, master_key |-> master_key, aad |-> aad]

\* KeyToolkit::DecryptKeyLocally: the GCM tag verifies only under the same
\* master key and aad
DecryptKeyLocally(wrapped_key, master_key, aad) ==
    IF wrapped_key.master_key = master_key /\ wrapped_key.aad = aad
    THEN [kind |-> "ok", value |-> wrapped_key.key]
    ELSE [kind |-> "CryptoError", value |-> ""]

NoWrapped == [valid |-> FALSE, pre |-> FALSE, id |-> "", wrapped |-> EncryptKeyLocally("", "", "")]
KmsRes(op, id, kind, value) == [op |-> op, id |-> id, kind |-> kind, value |-> value]

\* A wrapped key in the caller's hands counts as wrapped before the rotation
\* once a rotation starts.
WrappedBeforeRotation == [kms_wrapped EXCEPT !.pre = kms_wrapped.valid]

StartKeyRotation(new_master_keys) ==
    LET parsed == ParseKeyList(new_master_keys)
    IN IF parsed.kind = "ok"
       THEN /\ new_master_key_map_' = parsed.map
            /\ kms_rot' = "started"
            /\ kms_wrapped' = WrappedBeforeRotation
            /\ kms_res' = KmsRes("StartKeyRotation", "", "ok", "")
            /\ UNCHANGED <<master_key_map_, notKms>>
       ELSE /\ kms_res' = KmsRes("StartKeyRotation", "", parsed.kind, "")
            /\ UNCHANGED <<master_key_map_, new_master_key_map_, kms_rot, kms_wrapped,
                           notKms>>

FinishKeyRotation ==
    /\ master_key_map_' = new_master_key_map_
    /\ kms_rot' = IF kms_rot = "started" THEN "finished" ELSE kms_rot
    /\ kms_res' = KmsRes("FinishKeyRotation", "", "ok", "")
    /\ UNCHANGED <<new_master_key_map_, kms_wrapped, notKms>>

\* The keys wrapped under earlier maps are no longer followed after a
\* re-initialization.
InitializeMasterKey(master_keys) ==
    LET parsed == ParseKeyList(master_keys)
    IN IF parsed.kind = "ok"
       THEN /\ master_key_map_' = parsed.map
            /\ new_master_key_map_' = parsed.map
            /\ kms_rot' = "none"
            /\ kms_wrapped' = NoWrapped
            /\ kms_res' = KmsRes("InitializeMasterKey", "", "ok", "")
            /\ UNCHANGED notKms
       ELSE /\ kms_res' = KmsRes("InitializeMasterKey", "", parsed.kind, "")
            /\ UNCHANGED <<master_key_map_, new_master_key_map_, kms_rot, kms_wrapped,
                           notKms>>

WrapKeyInServer(key_bytes, master_key_identifier) ==
    IF master_key_identifier \notin DOMAIN new_master_key_map_
    THEN /\ kms_res' = KmsRes("WrapKeyInServer", master_key_identifier, "KeyNotFound", "")
         /\ UNCHANGED <<master_key_map_, new_master_key_map_, kms_rot, kms_wrapped, notKms>>
    ELSE LET master_key == new_master_key_map_[master_key_identifier]
             aad == master_key_identifier
         IN /\ kms_wrapped' = [valid |-> TRUE, pre |-> FALSE,
                               id |-> master_key_identifier,
                               wrapped |-> EncryptKeyLocally(key_bytes, master_key, aad)]
            /\ kms_res' = KmsRes("WrapKeyInServer", master_key_identifier, "ok", "")
            /\ UNCHANGED <<master_key_map_, new_master_key_map_, kms_rot, notKms>>

\* A mutant of UnwrapKeyInServer: the lookup goes straight to at().
UnwrapKeyInServer_NoFind(master_key_identifier) ==
    /\ kms_wrapped.valid
    /\ IF master_key_identifier \notin DOMAIN new_master_key_map_
       THEN kms_res' = KmsRes("UnwrapKeyInServer", master_key_identifier,
                              "out_of_range", "")
       ELSE LET master_key == new_master_key_map_[master_key_identifier]
                aad == master_key_identifier
                plain == DecryptKeyLocally(kms_wrapped.wrapped, master_key, aad)
            IN kms_res' = KmsRes("UnwrapKeyInServer", master_key_identifier,
                                 plain.kind, plain.value)
    /\ UNCHANGED <<master_key_map_, new_master_key_map_, kms_rot, kms_wrapped, notKms>>

\* The caller unwraps the latest wrapped key it holds.
UnwrapKeyInServer(master_key_identifier) ==
    /\ kms_wrapped.valid
    /\ IF master_key_identifier \notin DOMAIN new_master_key_map_
       THEN kms_res' = KmsRes("UnwrapKeyInServer", master_key_identifier,
                              "KeyNotFound", "")
       ELSE LET master_key == new_master_key_map_[master_key_identifier]
                aad == master_key_identifier
                plain == DecryptKeyLocally(kms_wrapped.wrapped, master_key, aad)
            IN kms_res' = KmsRes("UnwrapKeyInServer", master_key_identifier,
                                 plain.kind, plain.value)
    /\ UNCHANGED <<master_key_map_, new_master_key_map_, kms_rot, kms_wrapped, notKms>>

\* std::map::at throws std::out_of_range for a missing key.
GetMasterKeyFromServer(master_key_identifier) ==
    /\ IF master_key_identifier \notin DOMAIN new_master_key_map_
       THEN kms_res' = KmsRes("GetMasterKeyFromServer", master_key_identifier,
                              "out_of_range", "")
       ELSE kms_res' = KmsRes("GetMasterKeyFromServer", master_key_identifier, "ok",
                              new_master_key_map_[master_key_identifier])
    /\ UNCHANGED <<master_key_map_, new_master_key_map_, kms_rot, kms_wrapped, notKms>>

KmsNext ==
    \/ \E keys \in KeyLists : InitializeMasterKey(keys)
    \/ \E keys \in KeyLists : StartKeyRotation(keys)
    \/ FinishKeyRotation
    \/ \E key \in DataKeys, id \in MasterKeyIdentifiers : WrapKeyInServer(key, id)
    \/ \E id \in MasterKeyIdentifiers : UnwrapKeyInServer(id)
    \/ \E id \in MasterKeyIdentifiers : GetMasterKeyFromServer(id)

\* The last operation unwrapped, with the id it was wrapped under, a key that
\* was wrapped before the rotation started.
UnwrappedPreRotationKey ==
    /\ kms_res.op = "UnwrapKeyInServer"
    /\ kms_wrapped.valid /\ kms_wrapped.pre
    /\ kms_res.id = kms_wrapped.id

\* The last operation wrapped a key and did so under the staged (new) map.
WrapUsedNewMap ==
    kms_res.op = "WrapKeyInServer" =>
        IF kms_res.id \in DOMAIN new_master_key_map_
        THEN /\ kms_res.kind = "ok"
             /\ kms_wrapped.wrapped.master_key = new_master_key_map_[kms_res.id]
        ELSE kms_res.kind = "KeyNotFound"

\* C6: between StartKeyRotation and FinishKeyRotation, WrapKeyInServer uses the
\* staged map and UnwrapKeyInServer of a key wrapped before the rotation
\* started succeeds with the original key; after FinishKeyRotation wrap and
\* unwrap use the new map.
C6_RotationWindow ==
    /\ kms_rot = "started" =>
          /\ WrapUsedNewMap
          /\ UnwrappedPreRotationKey =>
                (kms_res.kind = "ok" /\ kms_res.value = kms_wrapped.wrapped.key)
    /\ kms_rot = "finished" =>
          /\ master_key_map_ = new_master_key_map_
          /\ WrapUsedNewMap

\* C7 as stated: after a rotation is finished, unwrapping a key wrapped before
\* it succeeds whenever its master id still exists in the new map, and yields
\* KeyNotFound when the id was removed.
C7_AsStated ==
    (kms_rot = "finished" /\ UnwrappedPreRotationKey) =>
        IF kms_res.id \in DOMAIN new_master_key_map_
        THEN kms_res.kind = "ok" /\ kms_res.value = kms_wrapped.wrapped.key
        ELSE kms_res.kind = "KeyNotFound"

\* C7 (amended): after a rotation is finished, unwrapping a key wrapped before
\* it yields KeyNotFound when its master id was removed from the new map; when
\* the id still exists the lookup succeeds, and the unwrap returns the original
\* key if the new map holds the same key bytes for the id and fails in the
\* local decryption if it holds other bytes.
C7_AfterRotation ==
    (kms_rot = "finished" /\ UnwrappedPreRotationKey) =>
        IF kms_res.id \in DOMAIN new_master_key_map_
        THEN IF new_master_key_map_[kms_res.id] = kms_wrapped.wrapped.master_key
             THEN kms_res.kind = "ok" /\ kms_res.value = kms_wrapped.wrapped.key
             ELSE kms_res.kind = "CryptoError"
        ELSE kms_res.kind = "KeyNotFound"

C7_Witness ==
    /\ kms_rot = "finished" /\ UnwrappedPreRotationKey
    /\ kms_res.id \notin DOMAIN new_master_key_map_
    /\ kms_res.kind = "KeyNotFound"

\* C8: WrapKeyInServer, UnwrapKeyInServer and GetMasterKeyFromServer all report
\* KeyNotFound when the master key id is absent from the map they read.
C8_KeyNotFound ==
    (kms_res.op \in {"WrapKeyInServer", "UnwrapKeyInServer", "GetMasterKeyFromServer"}
        /\ kms_res.id \notin DOMAIN new_master_key_map_)
    => kms_res.kind = "KeyNotFound"

-----------------------------------------------------------------------------
(* PropertiesDrivenCryptoFactory: strings are sequences of characters.      *)

MaxLen == 7

\* The position of the first delim in v at or after start, 0 if there is none
\* (std::string::find).
RECURSIVE Find(_, _, _)
Find(v, delim, start) ==
    IF start > Len(v) THEN 0
    ELSE IF v[start] = delim THEN start
    ELSE Find(v, delim, start + 1)

RECURSIVE SplitStringFrom(_, _, _)
SplitStringFrom(v, delim, start) ==
    LET end == Find(v, delim, start)
    IN IF end = 0
       THEN <<SubSeq(v, start, Len(v))>>
       ELSE <<SubSeq(v, start, end - 1)>> \o SplitStringFrom(v, delim, end + 1)

\* SplitString(v, delim): the parts between the delimiters, at least one part.
SplitString(v, delim) == SplitStringFrom(v, delim, 1)

RECURSIVE TrimLeft(_)
TrimLeft(v) == IF v # <<>> /\ Head(v) = " " THEN TrimLeft(Tail(v)) ELSE v

RECURSIVE TrimRight(_)
TrimRight(v) ==
    IF v # <<>> /\ v[Len(v)] = " " THEN TrimRight(SubSeq(v, 1, Len(v) - 1)) ELSE v

\* arrow::internal::TrimString: without the leading and trailing whitespace
TrimString(v) == TrimRight(TrimLeft(v))

\* Key bytes: a length and the content, 0 standing for all-zero bytes and the
\* other values for what RandBytes wrote.
RandVals == {1, 2}

\* What RandBytes returns call after call: two sequences that differ at every
\* call, long enough for the footer key and a key per column.
RandTapes == {[n \in 1..(MaxLen + 1) |-> ((seed + n) % 2) + 1] : seed \in 0..1}
KeyBytes(length, content) == [len |-> length, bytes |-> content]

\* FileKeyWrapper::GetEncryptionKeyMetadata: the key metadata holds the wrapped
\* DEK, from which a reader recovers the bytes that were handed in.
GetEncryptionKeyMetadata(key, master_key_id, is_footer_key) ==
    [dek |-> key, master_key_id |-> master_key_id, is_footer_key |-> is_footer_key]

\* The wrapper after one more GetEncryptionKeyMetadata call.
WrapperCalled(key_wrapper, key, master_key_id, is_footer_key) ==
    Append(key_wrapper, GetEncryptionKeyMetadata(key, master_key_id, is_footer_key))

\* The key generated in a std::string that RandBytes fills in place: the
\* wrapper and the properties receive the same bytes.
KeyInString(dek_length, random) ==
    [to_wrapper |-> KeyBytes(dek_length, random),
     to_properties |-> KeyBytes(dek_length, random)]

\* The key generated in part_001: the string is resized (zero bytes), RandBytes
\* fills a Buffer made from a copy of it; the wrapper receives the buffer and
\* the properties receive the string.
KeyInBuffer(dek_length, random) ==
    [to_wrapper |-> KeyBytes(dek_length, random),
     to_properties |-> KeyBytes(dek_length, 0)]

GenerateKey(version, dek_length, random) ==
    IF version = "part_001" THEN KeyInBuffer(dek_length, random)
    ELSE KeyInString(dek_length, random)

\* ColumnEncryptionProperties::Builder(column_name).key(..)->key_metadata(..)->build()
ColumnEncryptionProperties(column_name, key, key_metadata) ==
    [column_path |-> column_name, key |-> key, key_metadata |-> key_metadata]

ColumnsOk(encrypted_columns, key_wrapper) ==
    [kind |-> "ok", what |-> "", encrypted_columns |-> encrypted_columns,
     key_wrapper |-> key_wrapper]
\* throw ParquetException(..) in the factory file, throw new ParquetException(..)
\* (a pointer) in part_001.
ColumnsThrow(what, key_wrapper, version) ==
    [kind |-> IF version = "part_001" THEN "ParquetException*" ELSE "ParquetException",
     what |-> what, encrypted_columns |-> EmptyMap, key_wrapper |-> key_wrapper]

HasColumn_Never(encrypted_columns, column_name) == FALSE

\* encrypted_columns.find(column_name) != encrypted_columns.end()
HasColumn(encrypted_columns, column_name) == column_name \in DOMAIN encrypted_columns

\* The loop over the column names of one key (j counts from 1).
RECURSIVE ColumnNamesLoop(_, _, _, _, _, _, _)
ColumnNamesLoop(column_names, j, column_key_id, dek_length, acc, rand, version) ==
    IF j > Len(column_names) THEN acc
    ELSE LET column_name == TrimString(column_names[j])
         IN IF column_name = <<>>
            THEN ColumnsThrow("Empty column name", acc.key_wrapper, version)
            ELSE IF HasColumn(acc.encrypted_columns, column_name)
            THEN ColumnsThrow("Multiple keys defined for the same column",
                              acc.key_wrapper, version)
            ELSE LET column_key == GenerateKey(version, dek_length,
                                               rand[Len(acc.key_wrapper) + 1])
                     column_key_key_metadata ==
                         GetEncryptionKeyMetadata(column_key.to_wrapper, column_key_id,
                                                  FALSE)
                     cmd == ColumnEncryptionProperties(column_name,
                                                       column_key.to_properties,
                                                       column_key_key_metadata)
                 IN ColumnNamesLoop(column_names, j + 1, column_key_id, dek_length,
                        ColumnsOk(MapInsert(acc.encrypted_columns, column_name, cmd),
                                  WrapperCalled(acc.key_wrapper, column_key.to_wrapper,
                                                column_key_id, FALSE)),
                        rand, version)

\* The loop over the key-to-columns entries (i counts from 1).
RECURSIVE KeyToColumnsLoop(_, _, _, _, _, _)
KeyToColumnsLoop(key_to_columns, i, dek_length, acc, rand, version) ==
    IF i > Len(key_to_columns) THEN acc
    ELSE LET cur_key_to_columns == TrimString(key_to_columns[i])
             parts == SplitString(cur_key_to_columns, ":")
             column_key_id == TrimString(parts[1])
             column_names_str == TrimString(parts[2])
             column_names == SplitString(column_names_str, ",")
         IN IF cur_key_to_columns = <<>>
            THEN KeyToColumnsLoop(key_to_columns, i + 1, dek_length, acc, rand, version)
            ELSE IF Len(parts) # 2
            THEN ColumnsThrow("Incorrect key to columns mapping", acc.key_wrapper,
                              version)
            ELSE IF column_key_id = <<>>
            THEN ColumnsThrow("Empty key name", acc.key_wrapper, version)
            ELSE IF 0 = Len(column_names)
            THEN ColumnsThrow("No columns to encrypt defined for key", acc.key_wrapper,
                              version)
            ELSE LET after == ColumnNamesLoop(column_names, 1, column_key_id,
                                              dek_length, acc, rand, version)
                 IN IF after.kind # "ok" THEN after
                    ELSE KeyToColumnsLoop(key_to_columns, i + 1, dek_length, after,
                                          rand, version)

ColumnEncryptionPropertiesOf_NoEmptyCheck(dek_length, column_keys, key_wrapper, rand, version) ==
    KeyToColumnsLoop(SplitString(column_keys, ";"), 1, dek_length,
                     ColumnsOk(EmptyMap, key_wrapper), rand, version)

\* GetColumnEncryptionProperties of both files; version selects how the key
\* bytes are generated.
ColumnEncryptionPropertiesOf(dek_length, column_keys, key_wrapper, rand, version) ==
    LET key_to_columns == SplitString(column_keys, ";")
        after == KeyToColumnsLoop(key_to_columns, 1, dek_length,
                                  ColumnsOk(EmptyMap, key_wrapper), rand, version)
    IN IF after.kind = "ok" /\ DOMAIN after.encrypted_columns = {}
       THEN ColumnsThrow("No column keys configured", after.key_wrapper, version)
       ELSE after

\* PropertiesDrivenCryptoFactory::GetColumnEncryptionProperties
\* (properties_driven_crypto_factory.cc); rand is what RandBytes returns.
GetColumnEncryptionProperties(dek_length, column_keys, key_wrapper, rand) ==
    ColumnEncryptionPropertiesOf(dek_length, column_keys, key_wrapper, rand, "factory")

\* The characters of the column_keys strings of the model.
Chars == {"a", ":", ";", ",", " "}
ColumnKeyStrings == UNION {[1..n -> Chars] : n \in 0..MaxLen}
DekLengths == {16}

NoCkCall == [called |-> FALSE, column_keys |-> <<>>, dek_length |-> 16,
             result |-> ColumnsOk(EmptyMap, <<>>)]

\* GetFileEncryptionProperties calls GetColumnEncryptionProperties with a fresh
\* key wrapper that has wrapped the footer key.
CallGetColumnEncryptionProperties ==
    /\ ~ck_call.called
    /\ \E column_keys \in ColumnKeyStrings, dek_length \in DekLengths, rand \in RandTapes :
          ck_call' = [called |-> TRUE, column_keys |-> column_keys,
                      dek_length |-> dek_length,
                      result |-> GetColumnEncryptionProperties(dek_length, column_keys,
                                                               <<>>, rand)]
    /\ UNCHANGED notCk

CkNext ==
    \/ CallGetColumnEncryptionProperties

\* The column names a column_keys string names, each with its key, in order of
\* occurrence: for every non-blank ';' entry, the ',' separated names after its
\* first ':'.
RECURSIVE Concat(_)
Concat(seqs) == IF seqs = <<>> THEN <<>> ELSE Head(seqs) \o Concat(Tail(seqs))

NamesOfEntry(entry) ==
    LET parts == SplitString(TrimString(entry), ":")
        names == IF Len(parts) < 2 THEN <<>> ELSE SplitString(TrimString(parts[2]), ",")
    IN [j \in 1..Len(names) |-> [key |-> TrimString(parts[1]),
                                 column |-> TrimString(names[j])]]

NamedColumns(column_keys) ==
    LET entries == SplitString(column_keys, ";")
    IN Concat([i \in 1..Len(entries) |-> NamesOfEntry(entries[i])])

Occurrences(named, column) == {n \in 1..Len(named) : named[n].column = column}

SomeColumnTwice(column_keys) ==
    LET named == NamedColumns(column_keys)
    IN \E n \in 1..Len(named) :
          named[n].column # <<>> /\ Cardinality(Occurrences(named, named[n].column)) > 1

\* C10: for every column_keys string, GetColumnEncryptionProperties throws a
\* ParquetException when some trimmed column name occurs more than once, under
\* one key or under different keys; and when it returns, the map holds exactly
\* one entry for every column the string names, with the key of that column.
C10_OneKeyPerColumn ==
    ck_call.called =>
        LET named == NamedColumns(ck_call.column_keys)
            result == ck_call.result
        IN /\ SomeColumnTwice(ck_call.column_keys) => result.kind = "ParquetException"
           /\ result.kind = "ok" =>
                 /\ DOMAIN result.encrypted_columns =
                        {named[n].column : n \in 1..Len(named)}
                 /\ \A n \in 1..Len(named) :
                        LET cmd == result.encrypted_columns[named[n].column]
                        IN /\ cmd.column_path = named[n].column
                           /\ cmd.key_metadata.master_key_id = named[n].key
                           /\ Cardinality(Occurrences(named, named[n].column)) = 1

\* a column named under two different entries was rejected as a duplicate
C10_Witness ==
    /\ ck_call.called
    /\ Len(SplitString(ck_call.column_keys, ";")) = 2
    /\ \A i \in 1..2 : Len(NamesOfEntry(SplitString(ck_call.column_keys, ";")[i])) = 1
    /\ SomeColumnTwice(ck_call.column_keys)
    /\ ck_call.result.kind = "ParquetException"
    /\ ck_call.result.what = "Multiple keys defined for the same column"

AllBlank(v) == \A n \in 1..Len(v) : v[n] = " "

\* an entry with a ':' whose key name or whose column list is blank
EmptyKeyOrColumnList(entry) ==
    LET parts == SplitString(entry, ":")
    IN Len(parts) >= 2 /\ (AllBlank(parts[1]) \/ AllBlank(parts[2]))

NoColumnNamed(column_keys) ==
    \A n \in 1..Len(NamedColumns(column_keys)) : NamedColumns(column_keys)[n].column = <<>>

\* C11: GetColumnEncryptionProperties throws a ParquetException when some
\* key-to-columns entry has an empty key name or an empty column list after
\* trimming, and when the column_keys string names no column at all.
C11_EmptyKeyOrColumns ==
    ck_call.called =>
        LET entries == SplitString(ck_call.column_keys, ";")
        IN /\ (\E i \in 1..Len(entries) : EmptyKeyOrColumnList(entries[i]))
                 => ck_call.result.kind = "ParquetException"
           /\ NoColumnNamed(ck_call.column_keys)
                 => ck_call.result.kind = "ParquetException"

\* a valid entry followed by an entry with a key and no column was rejected
C11_Witness ==
    /\ ck_call.called
    /\ ck_call.column_keys = <<"a", ":", "a", ";", "a", ":", " ">>
    /\ ck_call.result.kind = "ParquetException"
    /\ ck_call.result.what = "Empty column name"

-----------------------------------------------------------------------------
(* EncryptionConfiguration, its Builder and GetFileEncryptionProperties.    *)

FooterKeyId == <<"k", "f">>
FactoryColumnKeys ==
    {<<>>, <<"a", ":", "a">>, <<"a", ":", "a", ",", "a">>,
     <<"a", ":", "a", ";", "b", ":", "b">>, <<"b", ":", "b", ";", "a", ":", "a">>}
Algorithms == {"AES_GCM_V1", "AES_GCM_CTR_V1"}
DataKeyLengthBits == {128, 256, 64}

\* An EncryptionConfiguration; null stands for a null shared_ptr.
EncryptionConfiguration(footer_key, column_keys, encryption_algorithm, plaintext_footer, internal_key_material, uniform_encryption, data_key_length_bits) ==
    [null |-> FALSE, footer_key |-> footer_key, column_keys |-> column_keys,
     encryption_algorithm |-> encryption_algorithm,
     plaintext_footer |-> plaintext_footer,
     internal_key_material |-> internal_key_material,
     uniform_encryption |-> uniform_encryption,
     data_key_length_bits |-> data_key_length_bits]

NullConfig ==
    [EncryptionConfiguration(<<>>, <<>>, "AES_GCM_V1", FALSE, TRUE, FALSE, 128)
        EXCEPT !.null = TRUE]

\* The configurations a caller can hand to GetFileEncryptionProperties.
Configs ==
    {EncryptionConfiguration(FooterKeyId, ck, algo, pf, ikm, ue, bits) :
        ck \in FactoryColumnKeys, algo \in Algorithms, pf \in BOOLEAN, ikm \in BOOLEAN,
        ue \in BOOLEAN, bits \in DataKeyLengthBits}

\* A Builder after construction: the recognized options at their defaults.
NewBuilder ==
    [footer_key_ |-> FooterKeyId, column_keys_ |-> <<>>,
     uniform_encryption_ |-> FALSE, encryption_algorithm_ |-> "AES_GCM_V1",
     plaintext_footer_ |-> FALSE, internal_key_material_ |-> TRUE,
     data_key_length_bits_ |-> 128]

\* FileEncryptionProperties::Builder(footer_key) with footer_key_metadata,
\* algorithm, encrypted_columns, set_plaintext_footer, build.
FileEncryptionProperties(footer_key, footer_key_metadata, algorithm, encrypted_columns, plaintext_footer) ==
    [footer_key |-> footer_key, footer_key_metadata |-> footer_key_metadata,
     algorithm |-> algorithm, encrypted_columns |-> encrypted_columns,
     plaintext_footer |-> plaintext_footer]

NoProperties ==
    FileEncryptionProperties(KeyBytes(0, 0),
                             GetEncryptionKeyMetadata(KeyBytes(0, 0), <<>>, TRUE),
                             "", EmptyMap, FALSE)

\* The outcome of a call: what it returned or threw, the key wrapper's calls
\* and whether key material was saved to a store.
Outcome(kind, what, properties, key_wrapper, saved) ==
    [kind |-> kind, what |-> what, properties |-> properties,
     key_wrapper |-> key_wrapper, saved |-> saved]

FacRes(op, arg, config, outcome) ==
    [op |-> op, arg |-> arg, config |-> config, kind |-> outcome.kind,
     what |-> outcome.what, properties |-> outcome.properties,
     key_wrapper |-> outcome.key_wrapper, saved |-> outcome.saved]

Plain(kind, what) == Outcome(kind, what, NoProperties, <<>>, FALSE)

\* internal::ValidateKeyLength / ACCEPTABLE_DATA_KEY_LENGTHS
ValidateKeyLength(key_length_bits) == key_length_bits \in {128, 192, 256}

\* The rest of GetFileEncryptionProperties once the footer key is generated.
PropertiesWith(encryption_config, dek_length, footer_key, rand, version, saved) ==
    LET wrapped == WrapperCalled(<<>>, footer_key.to_wrapper,
                                 encryption_config.footer_key, TRUE)
        footer_key_metadata ==
            GetEncryptionKeyMetadata(footer_key.to_wrapper,
                                     encryption_config.footer_key, TRUE)
        columns ==
            IF ~encryption_config.uniform_encryption
            THEN ColumnEncryptionPropertiesOf(dek_length, encryption_config.column_keys,
                                              wrapped, rand, version)
            ELSE ColumnsOk(EmptyMap, wrapped)
    IN IF columns.kind # "ok"
       THEN Outcome(columns.kind, columns.what, NoProperties, columns.key_wrapper, FALSE)
       ELSE Outcome("ok", "",
                FileEncryptionProperties(
                    footer_key.to_properties, footer_key_metadata,
                    encryption_config.encryption_algorithm, columns.encrypted_columns,
                    ~encryption_config.uniform_encryption
                        /\ encryption_config.plaintext_footer),
                columns.key_wrapper, saved)

\* The two checks at the head of GetFileEncryptionProperties: the message of
\* the exception, "" when the configuration passes.
ExactlyOneCheck(encryption_config) ==
    IF ~encryption_config.uniform_encryption /\ encryption_config.column_keys = <<>>
    THEN "Either column_keys or uniform_encryption must be set"
    ELSE IF encryption_config.uniform_encryption
            /\ encryption_config.column_keys # <<>>
    THEN "Cannot set both column_keys and uniform_encryption"
    ELSE ""

\* GetFileEncryptionProperties with the footer key generated and wrapped
\* before the data key length is validated.
GetFileEncryptionProperties_WrapFirst(encryption_config, rand) ==
    IF encryption_config.null THEN Plain("NULL", "")
    ELSE IF ExactlyOneCheck(encryption_config) # ""
    THEN Plain("ParquetException", ExactlyOneCheck(encryption_config))
    ELSE IF ~encryption_config.internal_key_material
    THEN Plain("ParquetException", "External key material store is not supported yet.")
    ELSE LET dek_length == encryption_config.data_key_length_bits \div 8
             footer_key == KeyInString(dek_length, rand[1])
         IN IF ~ValidateKeyLength(encryption_config.data_key_length_bits)
            THEN Outcome("ParquetException", "Wrong data key length", NoProperties,
                         WrapperCalled(<<>>, footer_key.to_wrapper,
                                       encryption_config.footer_key, TRUE),
                         FALSE)
            ELSE PropertiesWith(encryption_config, dek_length, footer_key, rand,
                                "factory", FALSE)

\* PropertiesDrivenCryptoFactory::GetFileEncryptionProperties
\* (properties_driven_crypto_factory.cc)
GetFileEncryptionProperties(encryption_config, rand) ==
    IF encryption_config.null THEN Plain("NULL", "")
    ELSE IF ExactlyOneCheck(encryption_config) # ""
    THEN Plain("ParquetException", ExactlyOneCheck(encryption_config))
    ELSE IF ~encryption_config.internal_key_material
    THEN Plain("ParquetException", "External key material store is not supported yet.")
    ELSE IF ~ValidateKeyLength(encryption_config.data_key_length_bits)
    THEN Plain("ParquetException", "Wrong data key length")
    ELSE LET dek_length == encryption_config.data_key_length_bits \div 8
         IN PropertiesWith(encryption_config, dek_length,
                           KeyInString(dek_length, rand[1]), rand, "factory", FALSE)

\* The undefined behaviour of part_001 either crashes the process or lets the
\* call go on.
UbOutcomes == {"crash", "proceed"}

\* GetFileEncryptionProperties of part_001 (the overload with a Hadoop
\* connection). connected: HadoopFileSystem::Connect succeeded. ub: what the
\* out-of-bounds message pointer and the write through mutable_data() of an
\* immutable buffer do.
GetFileEncryptionProperties_part_001(encryption_config, connected, ub, rand) ==
    IF encryption_config.null THEN Plain("crash", "")
    ELSE IF ~encryption_config.internal_key_material /\ ~connected
    THEN Plain("ParquetException*", "Failed to get key material store")
    ELSE IF ~ValidateKeyLength(encryption_config.data_key_length_bits)
    THEN IF ub = "crash" THEN Plain("crash", "")
         ELSE Plain("ParquetException*", "unspecified")
    ELSE IF ub = "crash" THEN Plain("crash", "")
    ELSE LET dek_length == encryption_config.data_key_length_bits \div 8
         IN PropertiesWith(encryption_config, dek_length,
                           KeyInBuffer(dek_length, rand[1]), rand, "part_001",
                           ~encryption_config.internal_key_material)

NoFacRes == FacRes("none", <<>>, NullConfig, Plain("ok", ""))

Alive == fac_res.kind \notin {"abort", "crash"}
Building ==
    /\ Alive
    /\ built_config.null
    /\ fac_res.op \notin {"GetFileEncryptionProperties",
                          "GetFileEncryptionProperties_part_001"}

SetterDone(op, arg) == fac_res' = FacRes(op, arg, NullConfig, Plain("ok", ""))
SetterThrew(op, arg, what) ==
    fac_res' = FacRes(op, arg, NullConfig, Plain("ParquetException", what))

\* EncryptionConfiguration::Builder::column_keys; the DCHECK aborts in a build
\* with assertions.
Builder_column_keys(column_keys) ==
    /\ Building
    /\ \E build \in Builds :
          IF column_keys = <<>> /\ build = "assert"
          THEN /\ fac_res' = FacRes("column_keys", column_keys, NullConfig,
                                    Plain("abort", ""))
               /\ UNCHANGED builder
          ELSE IF builder.uniform_encryption_
          THEN /\ SetterThrew("column_keys", column_keys,
                              "Cannot call both column_keys and uniform_encryption")
               /\ UNCHANGED builder
          ELSE /\ builder' = [builder EXCEPT !.column_keys_ = column_keys]
               /\ SetterDone("column_keys", column_keys)
    /\ UNCHANGED <<built_config, notFac>>

Builder_uniform_encryption_NoCheck ==
    /\ Building
    /\ builder' = [builder EXCEPT !.uniform_encryption_ = TRUE]
    /\ SetterDone("uniform_encryption", <<>>)
    /\ UNCHANGED <<built_config, notFac>>

\* EncryptionConfiguration::Builder::uniform_encryption
Builder_uniform_encryption ==
    /\ Building
    /\ IF builder.column_keys_ # <<>>
       THEN /\ SetterThrew("uniform_encryption", <<>>,
                           "Cannot call both column_keys and uniform_encryption")
            /\ UNCHANGED builder
       ELSE /\ builder' = [builder EXCEPT !.uniform_encryption_ = TRUE]
            /\ SetterDone("uniform_encryption", <<>>)
    /\ UNCHANGED <<built_config, notFac>>

Builder_encryption_algorithm(algo) ==
    /\ Building
    /\ builder' = [builder EXCEPT !.encryption_algorithm_ = algo]
    /\ SetterDone("encryption_algorithm", <<>>)
    /\ UNCHANGED <<built_config, notFac>>

Builder_plaintext_footer(plaintext_footer) ==
    /\ Building
    /\ builder' = [builder EXCEPT !.plaintext_footer_ = plaintext_footer]
    /\ SetterDone("plaintext_footer", <<>>)
    /\ UNCHANGED <<built_config, notFac>>

Builder_internal_key_material(internal_key_material) ==
    /\ Building
    /\ builder' = [builder EXCEPT !.internal_key_material_ = internal_key_material]
    /\ SetterDone("internal_key_material", <<>>)
    /\ UNCHANGED <<built_config, notFac>>

Builder_data_key_length_bits(data_key_length_bits) ==
    /\ Building
    /\ builder' = [builder EXCEPT !.data_key_length_bits_ = data_key_length_bits]
    /\ SetterDone("data_key_length_bits", <<>>)
    /\ UNCHANGED <<built_config, notFac>>

\* EncryptionConfiguration::Builder::build
Builder_build ==
    /\ Building
    /\ IF ~builder.uniform_encryption_ /\ builder.column_keys_ = <<>>
       THEN /\ SetterThrew("build", <<>>,
                           "Either column_keys or uniform_encryption must be called")
            /\ UNCHANGED built_config
       ELSE /\ built_config' =
                  EncryptionConfiguration(builder.footer_key_, builder.column_keys_,
                      builder.encryption_algorithm_, builder.plaintext_footer_,
                      builder.internal_key_material_, builder.uniform_encryption_,
                      builder.data_key_length_bits_)
            /\ SetterDone("build", <<>>)
    /\ UNCHANGED <<builder, notFac>>

\* A writer hands a configuration of its own to the factory.
CallGetFileEncryptionProperties ==
    /\ fac_res.op = "none"
    /\ \E config \in Configs \cup {NullConfig}, rand \in RandTapes :
          fac_res' = FacRes("GetFileEncryptionProperties", <<>>, config,
                            GetFileEncryptionProperties(config, rand))
    /\ UNCHANGED <<builder, built_config, notFac>>

\* A writer hands what the Builder built, or null, to the factory of part_001.
CallGetFileEncryptionProperties_part_001 ==
    /\ Alive
    /\ fac_res.op \in {"none", "build"}
    /\ \E connected \in BOOLEAN, ub \in UbOutcomes, rand \in RandTapes :
          fac_res' = FacRes("GetFileEncryptionProperties_part_001", <<>>,
                            built_config,
                            GetFileEncryptionProperties_part_001(built_config,
                                connected, ub, rand))
    /\ UNCHANGED <<builder, built_config, notFac>>

FacNext ==
    \/ \E column_keys \in FactoryColumnKeys : Builder_column_keys(column_keys)
    \/ Builder_uniform_encryption
    \/ \E algo \in Algorithms : Builder_encryption_algorithm(algo)
    \/ \E plaintext_footer \in BOOLEAN : Builder_plaintext_footer(plaintext_footer)
    \/ \E internal_key_material \in BOOLEAN :
          Builder_internal_key_material(internal_key_material)
    \/ \E data_key_length_bits \in DataKeyLengthBits :
          Builder_data_key_length_bits(data_key_length_bits)
    \/ Builder_build
    \/ CallGetFileEncryptionProperties
    \/ CallGetFileEncryptionProperties_part_001

FactoryCalled ==
    fac_res.op \in {"GetFileEncryptionProperties", "GetFileEncryptionProperties_part_001"}

\* C2: whenever GetFileEncryptionProperties returns properties, the footer key
\* and every column key stored in them are the very bytes that were handed to
\* the key wrapper and that the key metadata lets a reader recover.
C2_SameDekBytes ==
    (FactoryCalled /\ fac_res.kind = "ok") =>
        LET properties == fac_res.properties
        IN /\ properties.footer_key = properties.footer_key_metadata.dek
           /\ properties.footer_key = fac_res.key_wrapper[1].dek
           /\ \A column \in DOMAIN properties.encrypted_columns :
                 properties.encrypted_columns[column].key =
                     properties.encrypted_columns[column].key_metadata.dek

ExactlyOne(column_keys, uniform_encryption) ==
    (column_keys # <<>>) # uniform_encryption

\* C9: a configuration is accepted only when exactly one of "column_keys is
\* non-empty" and "uniform_encryption is true" holds. The Builder never holds
\* both, whichever setter is called first the second one throws, build() throws
\* when neither is set, and GetFileEncryptionProperties throws a
\* ParquetException for a configuration with neither or with both.
C9_ExactlyOne ==
    /\ ~(builder.uniform_encryption_ /\ builder.column_keys_ # <<>>)
    /\ (fac_res.op = "uniform_encryption" /\ builder.column_keys_ # <<>>)
          => fac_res.kind = "ParquetException"
    /\ (fac_res.op = "column_keys" /\ fac_res.arg # <<>> /\ builder.uniform_encryption_)
          => fac_res.kind = "ParquetException"
    /\ fac_res.op = "build" =>
          /\ ~ExactlyOne(builder.column_keys_, builder.uniform_encryption_)
                => fac_res.kind = "ParquetException"
          /\ fac_res.kind = "ok" =>
                /\ ~built_config.null
                /\ ExactlyOne(built_config.column_keys, built_config.uniform_encryption)
    /\ (FactoryCalled /\ ~fac_res.config.null) =>
          /\ fac_res.kind = "ok" =>
                ExactlyOne(fac_res.config.column_keys, fac_res.config.uniform_encryption)
          /\ (fac_res.op = "GetFileEncryptionProperties"
               /\ ~ExactlyOne(fac_res.config.column_keys,
                              fac_res.config.uniform_encryption))
                => fac_res.kind = "ParquetException"

\* C12: GetFileEncryptionProperties throws a ParquetException for every
\* data_key_length_bits outside {128, 192, 256}, and when it returns properties
\* the footer key and every column key, as wrapped and as stored, have
\* data_key_length_bits / 8 bytes.
C12_DataKeyLength ==
    (FactoryCalled /\ ~fac_res.config.null) =>
        LET bits == fac_res.config.data_key_length_bits
            properties == fac_res.properties
        IN /\ bits \notin {128, 192, 256} => fac_res.kind = "ParquetException"
           /\ fac_res.kind = "ok" =>
                 /\ bits \in {128, 192, 256}
                 /\ properties.footer_key.len = bits \div 8
                 /\ \A n \in 1..Len(fac_res.key_wrapper) :
                       fac_res.key_wrapper[n].dek.len = bits \div 8
                 /\ \A column \in DOMAIN properties.encrypted_columns :
                       properties.encrypted_columns[column].key.len = bits \div 8

\* C22: whenever GetFileEncryptionProperties returns properties for a
\* configuration with plaintext_footer = true the properties are in
\* plaintext-footer mode, with uniform encryption as with column keys; with
\* plaintext_footer = false the footer is encrypted.
C22_PlaintextFooter ==
    (FactoryCalled /\ fac_res.kind = "ok") =>
        fac_res.properties.plaintext_footer = fac_res.config.plaintext_footer

\* The configuration is one that GetFileEncryptionProperties rejects for the
\* exclusivity of column_keys and uniform_encryption, for external key
\* material or for its data_key_length_bits.
RejectedConfiguration(config) ==
    \/ ~ExactlyOne(config.column_keys, config.uniform_encryption)
    \/ ~config.internal_key_material
    \/ config.data_key_length_bits \notin {128, 192, 256}

\* C28: a GetFileEncryptionProperties call that returns properties has called
\* the key wrapper once for the footer key (is_footer_key = true, the footer
\* key id) before any column key, and then once for every column name of
\* column_keys, from left to right (is_footer_key = false, the key id of the
\* column), each time with a newly generated DEK; with uniform encryption it
\* has called the wrapper once in all; and for a configuration rejected for
\* the exclusivity of column_keys and uniform_encryption, for external key
\* material or for its data_key_length_bits it has not called the wrapper.
C28_KeyWrapperCalls ==
    (fac_res.op = "GetFileEncryptionProperties" /\ ~fac_res.config.null) =>
        LET config == fac_res.config
            calls == fac_res.key_wrapper
            named == NamedColumns(config.column_keys)
        IN /\ RejectedConfiguration(config) =>
                 (fac_res.kind = "ParquetException" /\ calls = <<>>)
           /\ fac_res.kind = "ok" =>
                 /\ Len(calls) >= 1
                 /\ calls[1].is_footer_key
                 /\ calls[1].master_key_id = config.footer_key
                 /\ calls[1].dek = fac_res.properties.footer_key
                 /\ calls[1].dek.bytes # 0
                 /\ config.uniform_encryption => Len(calls) = 1
                 /\ ~config.uniform_encryption =>
                       /\ Len(calls) = 1 + Len(named)
                       /\ \A n \in 1..Len(named) :
                             /\ ~calls[n + 1].is_footer_key
                             /\ calls[n + 1].master_key_id = named[n].key
                             /\ calls[n + 1] =
                                   fac_res.properties.encrypted_columns[named[n].column]
                                       .key_metadata
                             /\ calls[n + 1].dek.bytes # 0
                             /\ calls[n + 1].dek # calls[n].dek

\* properties were returned for column_keys "b:b;a:a": the wrapper was called
\* for the footer key, then for the key of column b, then for the key of
\* column a
C28_Witness ==
    /\ fac_res.op = "GetFileEncryptionProperties"
    /\ fac_res.kind = "ok"
    /\ fac_res.config.column_keys = <<"b", ":", "b", ";", "a", ":", "a">>
    /\ Len(fac_res.key_wrapper) = 3
    /\ fac_res.key_wrapper[1].is_footer_key
    /\ fac_res.key_wrapper[2].master_key_id = <<"b">>
    /\ fac_res.key_wrapper[3].master_key_id = <<"a">>

\* column_keys was set first and uniform_encryption() then threw
C9_Witness ==
    /\ fac_res.op = "uniform_encryption"
    /\ builder.column_keys_ # <<>>
    /\ ~builder.uniform_encryption_
    /\ fac_res.kind = "ParquetException"

-----------------------------------------------------------------------------
(* InternalFileEncryptor: the Encryptors it hands out and the AesEncryptors *)
(* it caches by key length.                                                 *)

KeyLengths == {15, 16, 24, 32, 33}
ColumnPaths == {"a", "b"}

\* static_cast<int>(key_size) of a size_t: the value itself for the key sizes
\* of the model, which all fit an int.
StaticCastInt(key_size) == key_size

\* ColumnEncryptionProperties as the encryptor reads them: isEncryptedWithFooterKey
\* and getKey.
ColumnProperties(encrypted_with_footer_key, key) ==
    [encrypted_with_footer_key |-> encrypted_with_footer_key, key |-> key]

ColumnPropertiesChoices ==
    {ColumnProperties(TRUE, KeyBytes(0, 0))}
        \cup {ColumnProperties(FALSE, KeyBytes(len, 3)) : len \in KeyLengths}

\* FileEncryptionProperties as the encryptor reads them: getAlgorithm,
\* getFileAAD, getFooterEncryptionKey, getFooterSigningKey, encryptedFooter and
\* getColumnProperties (a column outside columns has no properties).
EncryptorProperties(algorithm, encrypted_footer, footer_encryption_key, footer_signing_key, columns) ==
    [null |-> FALSE, algorithm |-> algorithm, file_aad |-> "aad",
     encrypted_footer |-> encrypted_footer,
     footer_encryption_key |-> footer_encryption_key,
     footer_signing_key |-> footer_signing_key, columns |-> columns]

NoEncryptorProperties ==
    [EncryptorProperties("", FALSE, KeyBytes(0, 0), KeyBytes(0, 0), EmptyMap)
        EXCEPT !.null = TRUE]

\* The properties of the model: column a has properties or not, column b has
\* none; the footer encryption key, the footer signing key and the key of a
\* column differ in their bytes.
EncryptorPropertiesChoices ==
    {EncryptorProperties(algo, ef, KeyBytes(fl, 1), KeyBytes(sl, 2), cols) :
        algo \in Algorithms, ef \in BOOLEAN, fl \in KeyLengths, sl \in KeyLengths,
        cols \in {EmptyMap} \cup {"a" :> cp : cp \in ColumnPropertiesChoices}}

\* new parquet_encryption::AesEncryptor(algorithm, key_len, metadata)
AesEncryptor(algorithm, key_len, metadata) ==
    [algorithm |-> algorithm, key_len |-> key_len, metadata |-> metadata]

NoAesEncryptor == AesEncryptor("", 0, FALSE)

\* Encryptor::Encryptor
Encryptor(aes_encryptor, key, file_aad, aad) ==
    [aes_encryptor_ |-> aes_encryptor, key_ |-> key, file_aad_ |-> file_aad,
     aad_ |-> aad]

NoEncryptor == Encryptor(NoAesEncryptor, KeyBytes(0, 0), "", "")

\* parquet_encryption::createFooterAAD
createFooterAAD(file_aad) == file_aad

\* The member a key length selects, "" when there is none.
Slot(key_len) ==
    IF key_len = 16 THEN "128"
    ELSE IF key_len = 24 THEN "196"
    ELSE IF key_len = 32 THEN "256"
    ELSE ""

\* What GetMetaAesEncryptor and GetDataAesEncryptor do over their three
\* members: reset the member when it is null, return it, or throw.
AesResult(kind, members, aes, created) ==
    [kind |-> kind, members |-> members, aes |-> aes, created |-> created]

GetAesEncryptor_AnyLength(members, algorithm, key_size, metadata) ==
    LET key_len == StaticCastInt(key_size)
        slot == IF Slot(key_len) = "" THEN "128" ELSE Slot(key_len)
    IN IF slot \notin DOMAIN members
       THEN AesResult("ok", MapPut(members, slot,
                                   AesEncryptor(algorithm, key_len, metadata)),
                      AesEncryptor(algorithm, key_len, metadata), TRUE)
       ELSE AesResult("ok", members, members[slot], FALSE)

GetAesEncryptor(members, algorithm, key_size, metadata) ==
    LET key_len == StaticCastInt(key_size)
        slot == Slot(key_len)
    IN IF slot = ""
       THEN AesResult("ParquetException", members, NoAesEncryptor, FALSE)
       ELSE IF slot \notin DOMAIN members
       THEN AesResult("ok", MapPut(members, slot,
                                   AesEncryptor(algorithm, key_len, metadata)),
                      AesEncryptor(algorithm, key_len, metadata), TRUE)
       ELSE AesResult("ok", members, members[slot], FALSE)

\* InternalFileEncryptor::GetMetaAesEncryptor
GetMetaAesEncryptor(algorithm, key_size) ==
    GetAesEncryptor(meta_encryptor_, algorithm, key_size, TRUE)

\* InternalFileEncryptor::GetDataAesEncryptor
GetDataAesEncryptor(algorithm, key_size) ==
    GetAesEncryptor(data_encryptor_, algorithm, key_size, FALSE)

EncRes(op, column_path, key, kind, encryptor, created) ==
    [op |-> op, column_path |-> column_path, key |-> key, kind |-> kind,
     encryptor |-> encryptor, created |-> created,
     meta_before |-> meta_encryptor_, data_before |-> data_encryptor_]

NoEncRes ==
    [op |-> "none", column_path |-> "", key |-> KeyBytes(0, 0), kind |-> "ok",
     encryptor |-> NoEncryptor, created |-> FALSE, meta_before |-> EmptyMap,
     data_before |-> EmptyMap]

\* InternalFileEncryptor::InternalFileEncryptor
InternalFileEncryptor(properties) ==
    /\ properties_.null
    /\ properties_' = properties
    /\ UNCHANGED <<meta_encryptor_, data_encryptor_, enc_res, notEnc>>

\* The end of a footer or column request: the Encryptor or the exception.
Handed(op, column_path, key, aes_result, aad) ==
    enc_res' = EncRes(op, column_path, key, aes_result.kind,
                      IF aes_result.kind = "ok"
                      THEN Encryptor(aes_result.aes, key, properties_.file_aad, aad)
                      ELSE NoEncryptor,
                      aes_result.created)

\* InternalFileEncryptor::GetFooterEncryptor
GetFooterEncryptor ==
    /\ ~properties_.null
    /\ LET aad == createFooterAAD(properties_.file_aad)
           footer_key == properties_.footer_encryption_key
           aes_encryptor == GetMetaAesEncryptor(properties_.algorithm, footer_key.len)
       IN /\ meta_encryptor_' = aes_encryptor.members
          /\ Handed("GetFooterEncryptor", "", footer_key, aes_encryptor, aad)
    /\ UNCHANGED <<properties_, data_encryptor_, notEnc>>

\* InternalFileEncryptor::GetFooterSigningEncryptor
GetFooterSigningEncryptor ==
    /\ ~properties_.null
    /\ LET aad == createFooterAAD(properties_.file_aad)
           footer_signing_key == properties_.footer_signing_key
           aes_encryptor == GetMetaAesEncryptor(properties_.algorithm,
                                                footer_signing_key.len)
       IN /\ meta_encryptor_' = aes_encryptor.members
          /\ Handed("GetFooterSigningEncryptor", "", footer_signing_key,
                    aes_encryptor, aad)
    /\ UNCHANGED <<properties_, data_encryptor_, notEnc>>

\* GetColumnEncryptor with the footer encryption key for every column that is
\* encrypted with the footer key, whatever the footer mode.
ColumnEncryptorKey_EncryptedFooterOnly(properties, column_prop) ==
    IF column_prop.encrypted_with_footer_key
    THEN properties.footer_encryption_key
    ELSE column_prop.key

\* The key GetColumnEncryptor chooses for a column with properties.
ColumnEncryptorKey(properties, column_prop) ==
    IF column_prop.encrypted_with_footer_key
    THEN IF properties.encrypted_footer
         THEN properties.footer_encryption_key
         ELSE properties.footer_signing_key
    ELSE column_prop.key

\* InternalFileEncryptor::GetColumnEncryptor
GetColumnEncryptor(column_path, metadata) ==
    /\ ~properties_.null
    /\ LET op == IF metadata THEN "GetColumnMetaEncryptor" ELSE "GetColumnDataEncryptor"
       IN IF column_path \notin DOMAIN properties_.columns
          THEN /\ enc_res' = EncRes(op, column_path, KeyBytes(0, 0), "NULLPTR",
                                    NoEncryptor, FALSE)
               /\ UNCHANGED <<meta_encryptor_, data_encryptor_>>
          ELSE LET column_prop == properties_.columns[column_path]
                   key == ColumnEncryptorKey(properties_, column_prop)
                   aes_encryptor ==
                       IF metadata
                       THEN GetMetaAesEncryptor(properties_.algorithm, key.len)
                       ELSE GetDataAesEncryptor(properties_.algorithm, key.len)
               IN /\ meta_encryptor_' =
                        IF metadata THEN aes_encryptor.members ELSE meta_encryptor_
                  /\ data_encryptor_' =
                        IF metadata THEN data_encryptor_ ELSE aes_encryptor.members
                  /\ Handed(op, column_path, key, aes_encryptor, "")
    /\ UNCHANGED <<properties_, notEnc>>

\* InternalFileEncryptor::GetColumnMetaEncryptor
GetColumnMetaEncryptor(column_path) == GetColumnEncryptor(column_path, TRUE)

\* InternalFileEncryptor::GetColumnDataEncryptor
GetColumnDataEncryptor(column_path) == GetColumnEncryptor(column_path, FALSE)

EncNext ==
    \/ \E properties \in EncryptorPropertiesChoices : InternalFileEncryptor(properties)
    \/ GetFooterEncryptor
    \/ GetFooterSigningEncryptor
    \/ \E column_path \in ColumnPaths : GetColumnMetaEncryptor(column_path)
    \/ \E column_path \in ColumnPaths : GetColumnDataEncryptor(column_path)

AllAesEncryptors ==
    {meta_encryptor_[slot] : slot \in DOMAIN meta_encryptor_}
        \cup {data_encryptor_[slot] : slot \in DOMAIN data_encryptor_}

\* C13: an Encryptor is handed out only for a key of 16, 24 or 32 bytes; for
\* every other key length the request throws a ParquetException and creates
\* and caches no AesEncryptor; no cached AesEncryptor is for another length.
C13_KeyLengthChecked ==
    /\ enc_res.op # "none" =>
          /\ (enc_res.kind = "ok") => enc_res.key.len \in {16, 24, 32}
          /\ (enc_res.kind = "ok") => enc_res.encryptor.key_ = enc_res.key
          /\ (enc_res.kind # "NULLPTR" /\ enc_res.key.len \notin {16, 24, 32}) =>
                /\ enc_res.kind = "ParquetException"
                /\ ~enc_res.created
                /\ meta_encryptor_ = enc_res.meta_before
                /\ data_encryptor_ = enc_res.data_before
    /\ \A aes \in AllAesEncryptors : aes.key_len \in {16, 24, 32}

\* a column data encryptor was refused for a 33-byte column key after a
\* footer encryptor had been handed out
C13_Witness ==
    /\ enc_res.op = "GetColumnDataEncryptor"
    /\ enc_res.key.len = 33
    /\ enc_res.kind = "ParquetException"
    /\ meta_encryptor_ # EmptyMap
    /\ data_encryptor_ = EmptyMap

\* The last request was GetColumnMetaEncryptor or GetColumnDataEncryptor.
ColumnEncryptorRequested ==
    enc_res.op \in {"GetColumnMetaEncryptor", "GetColumnDataEncryptor"}

\* C24: GetColumnMetaEncryptor and GetColumnDataEncryptor return no encryptor
\* for a column without encryption properties; for a column with properties
\* the Encryptor they return holds the column's own key when the column has
\* one, and for a column encrypted with the footer key the footer encryption
\* key if the footer is encrypted and the footer signing key if it is
\* plaintext; its module AAD is empty and its file AAD is the file's.
C24_ColumnEncryptorKey ==
    ColumnEncryptorRequested =>
        IF enc_res.column_path \notin DOMAIN properties_.columns
        THEN enc_res.kind = "NULLPTR"
        ELSE LET column_prop == properties_.columns[enc_res.column_path]
             IN /\ enc_res.kind # "NULLPTR"
                /\ enc_res.kind = "ok" =>
                      /\ enc_res.encryptor.aad_ = ""
                      /\ enc_res.encryptor.file_aad_ = properties_.file_aad
                      /\ ~column_prop.encrypted_with_footer_key
                            => enc_res.encryptor.key_ = column_prop.key
                      /\ (column_prop.encrypted_with_footer_key
                            /\ properties_.encrypted_footer)
                            => enc_res.encryptor.key_ = properties_.footer_encryption_key
                      /\ (column_prop.encrypted_with_footer_key
                            /\ ~properties_.encrypted_footer)
                            => enc_res.encryptor.key_ = properties_.footer_signing_key

\* a column encrypted with the footer key got its data encryptor in a file
\* with a plaintext footer whose signing key is not the encryption key
C24_Witness ==
    /\ enc_res.op = "GetColumnDataEncryptor"
    /\ enc_res.kind = "ok"
    /\ properties_.columns[enc_res.column_path].encrypted_with_footer_key
    /\ ~properties_.encrypted_footer
    /\ properties_.footer_signing_key # properties_.footer_encryption_key
    /\ enc_res.encryptor.key_ = properties_.footer_signing_key

-----------------------------------------------------------------------------
(* The file as SerializedFile::ParseMetaData reads it: the data, the footer *)
(* region, a 4-byte length and a 4-byte magic.                              *)

FOOTER_SIZE == 8
SignatureLen == 28
ThriftLen == 3
CryptoLen == 2
DataLen == 4

\* A uint32_t as two 16-bit halves.
U32(hi, lo) == [hi |-> hi, lo |-> lo]

\* The uint32_t of a number below 2^31.
U32Of(n) == U32(n \div 65536, n % 65536)

\* a + b in uint32_t arithmetic
U32Add(a, b) ==
    LET lo == a.lo + b.lo
        hi == a.hi + b.hi + (lo \div 65536)
    IN U32(hi % 65536, lo % 65536)

\* a > n for a uint32_t a and an int64_t n of 0 .. 2^31 - 1
U32Greater(a, n) == IF a.hi >= 32768 THEN TRUE ELSE a.hi * 65536 + a.lo > n

\* The value of a uint32_t that is known to be below 2^31.
U32Value(a) == a.hi * 65536 + a.lo

\* EncryptionAlgorithm with its AesGcmV1 / AesGcmCtrV1 aad fields
EncryptionAlgorithm(algorithm, supply_aad_prefix, aad_prefix, aad_file_unique) ==
    [isset |-> TRUE, algorithm |-> algorithm,
     aad |-> [supply_aad_prefix |-> supply_aad_prefix, aad_prefix |-> aad_prefix,
              aad_file_unique |-> aad_file_unique]]

NoEncryptionAlgorithm ==
    [EncryptionAlgorithm("", FALSE, "", "") EXCEPT !.isset = FALSE]

\* parquet_encryption::createModuleAAD: the file AAD followed by the module
\* type and the ordinals.
createModuleAAD(file_aad, module_type, row_group_ordinal, column_ordinal, page_ordinal) ==
    [file_aad |-> file_aad, module_type |-> module_type,
     row_group_ordinal |-> row_group_ordinal, column_ordinal |-> column_ordinal,
     page_ordinal |-> page_ordinal]

\* AES-GCM of a column's metadata: opens only under the key and AAD it was
\* made with.
EncryptColumnMetaData(meta_data, key, aad) ==
    [meta_data |-> meta_data, key |-> key, aad |-> aad]

\* format::ColumnMetaData: the column, its values, and whether the optional
\* statistics and encoding_stats are set.
ColumnMetaData(path_in_schema, num_values, statistics, encoding_stats) ==
    [path_in_schema |-> path_in_schema, num_values |-> num_values,
     isset_statistics |-> statistics, isset_encoding_stats |-> encoding_stats]

\* A default-constructed format::ColumnMetaData.
NoColumnMetaData == ColumnMetaData("", 0, FALSE, FALSE)

NoEncryptedColumnMetaData ==
    EncryptColumnMetaData(NoColumnMetaData, "", createModuleAAD("", "", 0, 0, 0))

\* format::ColumnChunk: meta_data and encrypted_column_metadata with their
\* __isset flags; crypto_metadata is "none" (not set),
\* "ENCRYPTION_WITH_FOOTER_KEY" or "ENCRYPTION_WITH_COLUMN_KEY" with the path
\* and the key metadata.
ColumnChunk(isset_meta_data, meta_data, crypto_metadata, path_in_schema, key_metadata, isset_encrypted_column_metadata, encrypted_column_metadata) ==
    [isset_meta_data |-> isset_meta_data, meta_data |-> meta_data,
     crypto_metadata |-> crypto_metadata, path_in_schema |-> path_in_schema,
     key_metadata |-> key_metadata,
     isset_encrypted_column_metadata |-> isset_encrypted_column_metadata,
     encrypted_column_metadata |-> encrypted_column_metadata]

\* A default-constructed format::ColumnChunk whose meta_data is the one given.
NewColumnChunk(meta_data) ==
    ColumnChunk(FALSE, meta_data, "none", "", "", FALSE, NoEncryptedColumnMetaData)

\* ColumnEncryptionProperties as WriteTo reads them: isEncrypted,
\* isEncryptedWithFooterKey, getKeyMetaData.
ColumnEncryptMd(encrypted, encrypted_with_footer_key, key_metadata) ==
    [null |-> FALSE, encrypted |-> encrypted,
     encrypted_with_footer_key |-> encrypted_with_footer_key,
     key_metadata |-> key_metadata]

NoColumnEncryptMd == [ColumnEncryptMd(FALSE, FALSE, "") EXCEPT !.null = TRUE]

\* EncryptionProperties: the key and the AAD of a module.
EncryptionProperties(key, aad) == [key |-> key, aad |-> aad]

\* The copy of the column metadata for old readers: statistics and
\* encoding_stats are not set.
Redacted(column_metadata) ==
    [column_metadata EXCEPT !.isset_statistics = FALSE,
                            !.isset_encoding_stats = FALSE]

\* The branch of WriteTo that stores the metadata in
\* encrypted_column_metadata: with a plaintext footer meta_data is the
\* redacted copy, with an encrypted footer meta_data is not assigned.
WriteEncryptedColumnMetaData(chunk, column_metadata, footer_encryption_null, encryption) ==
    LET stored == [chunk EXCEPT
                      !.isset_encrypted_column_metadata = TRUE,
                      !.encrypted_column_metadata =
                          EncryptColumnMetaData(column_metadata, encryption.key,
                                                encryption.aad)]
    IN IF footer_encryption_null
       THEN [stored EXCEPT !.isset_meta_data = TRUE,
                           !.meta_data = Redacted(column_metadata)]
       ELSE [stored EXCEPT !.isset_meta_data = TRUE]

\* ColumnChunkMetaDataBuilder::WriteTo: the column chunk that is serialized
\* to the sink.
ColumnChunkWriteTo(column_chunk, path, column_metadata, encrypt_md, footer_encryption_null, encryption) ==
    IF encrypt_md.null \/ ~encrypt_md.encrypted
    THEN [column_chunk EXCEPT !.isset_meta_data = TRUE, !.meta_data = column_metadata]
    ELSE LET with_crypto ==
                 IF encrypt_md.encrypted_with_footer_key
                 THEN [column_chunk EXCEPT
                          !.crypto_metadata = "ENCRYPTION_WITH_FOOTER_KEY"]
                 ELSE [column_chunk EXCEPT
                          !.crypto_metadata = "ENCRYPTION_WITH_COLUMN_KEY",
                          !.key_metadata = encrypt_md.key_metadata,
                          !.path_in_schema = path]
         IN IF (footer_encryption_null /\ encrypt_md.encrypted)
               \/ ~encrypt_md.encrypted_with_footer_key
            THEN WriteEncryptedColumnMetaData(with_crypto, column_metadata,
                                              footer_encryption_null, encryption)
            ELSE [with_crypto EXCEPT !.isset_meta_data = TRUE,
                                     !.meta_data = column_metadata]

\* format::FileMetaData: num_rows stands for the fields that the Thrift bytes
\* of the model carry, the other fields are carried as they are.
FileMetaData(num_rows, encryption_algorithm, footer_signing_key_metadata, row_groups) ==
    [null |-> FALSE, num_rows |-> num_rows,
     encryption_algorithm |-> encryption_algorithm,
     footer_signing_key_metadata |-> footer_signing_key_metadata,
     row_groups |-> row_groups]

NoFileMetaData ==
    [FileMetaData(0, NoEncryptionAlgorithm, "", <<>>) EXCEPT !.null = TRUE]

\* FileMetaData::is_plaintext_mode
is_plaintext_mode(file_metadata) == file_metadata.encryption_algorithm.isset

\* format::FileCryptoMetaData
FileCryptoMetaData(encryption_algorithm, key_metadata) ==
    [null |-> FALSE, encryption_algorithm |-> encryption_algorithm,
     key_metadata |-> key_metadata]

NoFileCryptoMetaData ==
    [FileCryptoMetaData(NoEncryptionAlgorithm, "") EXCEPT !.null = TRUE]

\* The Thrift bytes of a footer, three bytes in the model: a list header, of
\* which the reader uses the size and reads but ignores a valid element type
\* (0 as written, 1 another valid type, 2 an invalid type); the payload; the
\* stop byte (0).
\* ThriftSerializer: the serialized footer.
Serialize(file_metadata) ==
    [thrift |-> <<0, file_metadata.num_rows, 0>>,
     fields |-> [file_metadata EXCEPT !.num_rows = 0]]

\* DeserializeThriftMsg of plaintext bytes: the footer, or null when the bytes
\* cannot be parsed.
Deserialize(block) ==
    IF block.thrift[1] = 2 \/ block.thrift[3] # 0
    THEN NoFileMetaData
    ELSE [block.fields EXCEPT !.num_rows = block.thrift[2]]

\* AES-GCM: the ciphertext opens only under the key and AAD it was made with.
Encrypt(plaintext, key, aad) == [plaintext |-> plaintext, key |-> key, aad |-> aad]
Decrypts(ciphertext, key, aad) == ciphertext.key = key /\ ciphertext.aad = aad

\* parquet_encryption::SignedFooterEncrypt: the 16-byte tag of the footer
\* under a key, an AAD and a nonce; changed marks a tag that was altered in
\* the file.
SignedFooterEncrypt(serialized, key, aad, nonce) ==
    [data |-> serialized, key |-> key, aad |-> aad, nonce |-> nonce, changed |-> FALSE]

NoSignature ==
    [nonce |-> 0, tag |-> SignedFooterEncrypt(Serialize(NoFileMetaData), "", "", 0)]

\* The file AAD bytes: the prefix followed by aad_file_unique.
FileAAD(aad_prefix, aad_file_unique) == aad_prefix \o aad_file_unique

\* A RandomAccessSource: its size, whether ReadAt delivers the bytes asked
\* for, the magic and the length before it, and the footer region (plaintext
\* Thrift with an optional signature, or crypto metadata and encrypted Thrift).
Source(file_size, readable, magic, declared_len, block, signature, crypto, encrypted_block) ==
    [null |-> FALSE, file_size |-> file_size, readable |-> readable, magic |-> magic,
     declared_len |-> declared_len, block |-> block, signature |-> signature,
     crypto |-> crypto, encrypted_block |-> encrypted_block]

NoSource ==
    [Source(0, TRUE, "", U32Of(0), Serialize(NoFileMetaData), NoSignature,
            NoFileCryptoMetaData, Encrypt(Serialize(NoFileMetaData), "", ""))
        EXCEPT !.null = TRUE]

-----------------------------------------------------------------------------
(* The reader's properties and SerializedFile::ParseMetaData.               *)

\* The key a key retriever returns for a key metadata when access is granted.
RetrievedKey(key_metadata) ==
    CASE key_metadata = "md_f" -> "kf"
      [] key_metadata = "md_a" -> "ka"
      [] key_metadata = "md_b" -> "kb"
      [] OTHER -> ""

\* A DecryptionKeyRetriever: GetKey throws KeyAccessDeniedException for the
\* key metadata in denied.
KeyRetriever(denied) == [null |-> FALSE, denied |-> denied]
NoKeyRetriever == [null |-> TRUE, denied |-> {}]

\* FileDecryptionProperties: getFooterKey, getAADPrefix, checkFooterIntegrity,
\* getKeyRetriever, getAADPrefixVerifier ("null", "accepts" or "rejects") and
\* getColumnKey (the explicit column keys by path).
FileDecryptionProperties(footer_key, aad_prefix, check_footer_integrity, key_retriever, aad_prefix_verifier, column_keys) ==
    [null |-> FALSE, footer_key |-> footer_key, aad_prefix |-> aad_prefix,
     check_footer_integrity |-> check_footer_integrity,
     key_retriever |-> key_retriever, aad_prefix_verifier |-> aad_prefix_verifier,
     column_keys |-> column_keys]

NoFileDecryptionProperties ==
    [FileDecryptionProperties("", "", FALSE, NoKeyRetriever, "null", EmptyMap)
        EXCEPT !.null = TRUE]

\* getColumnKey: the explicit key of a column path, empty when there is none.
getColumnKey(file_decryption, path) ==
    IF path \in DOMAIN file_decryption.column_keys
    THEN file_decryption.column_keys[path]
    ELSE ""

\* ReaderProperties: file_decryption(), fileAAD() and column_map(), a shared
\* map from column path to key or NULLPTR.
ReaderProperties(file_decryption, fileAAD, column_map_null, column_map) ==
    [file_decryption |-> file_decryption, fileAAD |-> fileAAD,
     column_map_null |-> column_map_null, column_map |-> column_map]

NoFileAAD == FileAAD("", "")

LogGetKey(key_metadata) == [call |-> "GetKey", arg |-> key_metadata]
LogCheck(aad_prefix) == [call |-> "check", arg |-> aad_prefix]

\* What a step of ParseMetaData leaves behind: the exception or "ok", and the
\* members as they are at that point.
Parsed(kind, what, file_metadata, file_crypto_metadata, fileAAD, log) ==
    [kind |-> kind, what |-> what, file_metadata |-> file_metadata,
     file_crypto_metadata |-> file_crypto_metadata, fileAAD |-> fileAAD, log |-> log]

\* The AAD prefix checks and the file AAD, the same in both footer paths.
AadStep(kind, what, fileAAD, log) ==
    [kind |-> kind, what |-> what, fileAAD |-> fileAAD, log |-> log]

FileAadOf(algo, file_decryption, log) ==
    LET aad == algo.aad
        checked == file_decryption.aad_prefix # ""
                   /\ file_decryption.aad_prefix = aad.aad_prefix
                   /\ file_decryption.aad_prefix_verifier # "null"
        log1 == IF checked THEN Append(log, LogCheck(aad.aad_prefix)) ELSE log
    IN IF algo.algorithm \notin {"AES_GCM_CTR_V1", "AES_GCM_V1"}
       THEN AadStep("ParquetException", "Unsupported algorithm", NoFileAAD, log)
       ELSE IF file_decryption.aad_prefix # ""
               /\ file_decryption.aad_prefix # aad.aad_prefix
       THEN AadStep("ParquetException",
                    "AAD Prefix in file and in properties is not the same",
                    NoFileAAD, log)
       ELSE IF checked /\ file_decryption.aad_prefix_verifier = "rejects"
       THEN AadStep("ParquetException", "AAD prefix rejected by the verifier",
                    NoFileAAD, log1)
       ELSE IF aad.supply_aad_prefix /\ file_decryption.aad_prefix = ""
       THEN AadStep("ParquetException", "AAD prefix not supplied", NoFileAAD, log1)
       ELSE IF ~aad.supply_aad_prefix
       THEN AadStep("ok", "", FileAAD(aad.aad_prefix, aad.aad_file_unique), log1)
       ELSE AadStep("ok", "", FileAAD(file_decryption.aad_prefix, aad.aad_file_unique),
                    log1)

\* The footer key: the explicit one, or the one the key retriever returns for
\* the footer key metadata.
KeyStep(kind, what, key, log) == [kind |-> kind, what |-> what, key |-> key, log |-> log]

\* The footer key asked of the key retriever whenever one is configured, the
\* explicit key only without it.
FooterKeyOf_RetrieverFirst(footer_key_metadata, file_decryption, log) ==
    IF footer_key_metadata # "" /\ ~file_decryption.key_retriever.null
       /\ footer_key_metadata \notin file_decryption.key_retriever.denied
       /\ RetrievedKey(footer_key_metadata) # ""
    THEN KeyStep("ok", "", RetrievedKey(footer_key_metadata),
                 Append(log, LogGetKey(footer_key_metadata)))
    ELSE IF file_decryption.footer_key # ""
    THEN KeyStep("ok", "", file_decryption.footer_key, log)
    ELSE KeyStep("ParquetException", "No footer key", "", log)

FooterKeyOf(footer_key_metadata, file_decryption, log) ==
    IF file_decryption.footer_key # ""
    THEN KeyStep("ok", "", file_decryption.footer_key, log)
    ELSE IF footer_key_metadata = ""
    THEN KeyStep("ParquetException", "No footer key or key metadata", "", log)
    ELSE IF file_decryption.key_retriever.null
    THEN KeyStep("ParquetException", "No footer key or key retriever", "", log)
    ELSE IF footer_key_metadata \in file_decryption.key_retriever.denied
    THEN KeyStep("ParquetException", "Footer key: access denied", "",
                 Append(log, LogGetKey(footer_key_metadata)))
    ELSE IF RetrievedKey(footer_key_metadata) = ""
    THEN KeyStep("ParquetException", "Footer key unavailable", "",
                 Append(log, LogGetKey(footer_key_metadata)))
    ELSE KeyStep("ok", "", RetrievedKey(footer_key_metadata),
                 Append(log, LogGetKey(footer_key_metadata)))

\* FileMetaData::FileMetaDataImpl::verify: the tag of the footer serialized
\* again, under the nonce of the file, against the tag of the file.
verify(file_metadata, key, fileAAD, aad, tail) ==
    SignedFooterEncrypt(Serialize(file_metadata), key, aad, tail.nonce) = tail.tag

\* FOOTER_SIZE + metadata_len > file_size, the sum in uint32_t.
LengthExceedsFile(metadata_len, file_size) ==
    U32Greater(U32Add(U32Of(FOOTER_SIZE), metadata_len), file_size)

\* The length passed the check only because the sum wrapped around.
LengthWrapped(metadata_len, file_size) ==
    /\ ~LengthExceedsFile(metadata_len, file_size)
    /\ (metadata_len.hi >= 32768 \/ U32Value(metadata_len) > file_size - FOOTER_SIZE)

\* ParseMetaData for a file that ends in PAR1.
PlaintextFooter(source, properties, ub, log) ==
    LET metadata_len == source.declared_len
        file_decryption == properties.file_decryption
        file_metadata == Deserialize(source.block)
        Throw(what, fm, fileAAD, lg) ==
            Parsed("ParquetException", what, fm, NoFileCryptoMetaData, fileAAD, lg)
    IN IF LengthExceedsFile(metadata_len, source.file_size)
       THEN Throw("File is less than file metadata size", NoFileMetaData, NoFileAAD, log)
       ELSE IF LengthWrapped(metadata_len, source.file_size)
       THEN IF ub = "crash"
            THEN Parsed("crash", "", NoFileMetaData, NoFileCryptoMetaData, NoFileAAD, log)
            ELSE Throw("Could not deserialize", NoFileMetaData, NoFileAAD, log)
       ELSE IF file_metadata.null
       THEN Throw("Could not deserialize", NoFileMetaData, NoFileAAD, log)
       ELSE IF ~is_plaintext_mode(file_metadata)
       THEN Parsed("ok", "", file_metadata, NoFileCryptoMetaData, NoFileAAD, log)
       ELSE IF file_decryption.null
       THEN Throw("No decryption properties are provided", file_metadata, NoFileAAD, log)
       ELSE LET aad_step == FileAadOf(file_metadata.encryption_algorithm,
                                      file_decryption, log)
                fileAAD == aad_step.fileAAD
                key_step == FooterKeyOf(file_metadata.footer_signing_key_metadata,
                                        file_decryption, aad_step.log)
            IN IF aad_step.kind # "ok"
               THEN Throw(aad_step.what, file_metadata, NoFileAAD, aad_step.log)
               ELSE IF ~file_decryption.check_footer_integrity
               THEN Parsed("ok", "", file_metadata, NoFileCryptoMetaData, fileAAD,
                           aad_step.log)
               ELSE IF U32Value(metadata_len) - ThriftLen # SignatureLen
               THEN Throw("Cannot verify plaintext mode footer", file_metadata, fileAAD,
                          aad_step.log)
               ELSE IF key_step.kind # "ok"
               THEN Throw(key_step.what, file_metadata, fileAAD, key_step.log)
               ELSE IF ~verify(file_metadata, key_step.key, fileAAD,
                               createFooterAAD(fileAAD), source.signature)
               THEN Throw("Could not verify plaintext footer metadata", file_metadata,
                          fileAAD, key_step.log)
               ELSE Parsed("ok", "", file_metadata, NoFileCryptoMetaData, fileAAD,
                           key_step.log)

\* ParseMetaData for a file that ends in PARE.
EncryptedFooter(source, properties, ub, log) ==
    LET footer_len == source.declared_len
        file_decryption == properties.file_decryption
        file_crypto_metadata == source.crypto
        Throw(what, fcm, fileAAD, lg) ==
            Parsed("ParquetException", what, NoFileMetaData, fcm, fileAAD, lg)
    IN IF LengthExceedsFile(footer_len, source.file_size)
       THEN Throw("File is less than file metadata size", NoFileCryptoMetaData,
                  NoFileAAD, log)
       ELSE IF LengthWrapped(footer_len, source.file_size)
       THEN IF ub = "crash"
            THEN Parsed("crash", "", NoFileMetaData, NoFileCryptoMetaData, NoFileAAD, log)
            ELSE Throw("Could not deserialize", NoFileCryptoMetaData, NoFileAAD, log)
       ELSE IF file_decryption.null
       THEN Throw("No decryption properties are provided", NoFileCryptoMetaData,
                  NoFileAAD, log)
       ELSE IF file_crypto_metadata.null
       THEN Throw("Could not deserialize", NoFileCryptoMetaData, NoFileAAD, log)
       ELSE LET aad_step == FileAadOf(file_crypto_metadata.encryption_algorithm,
                                      file_decryption, log)
                fileAAD == aad_step.fileAAD
                key_step == FooterKeyOf(file_crypto_metadata.key_metadata,
                                        file_decryption, aad_step.log)
                file_metadata == Deserialize(source.encrypted_block.plaintext)
            IN IF aad_step.kind # "ok"
               THEN Throw(aad_step.what, file_crypto_metadata, NoFileAAD, aad_step.log)
               ELSE IF key_step.kind # "ok"
               THEN Throw(key_step.what, file_crypto_metadata, fileAAD, key_step.log)
               ELSE IF ~Decrypts(source.encrypted_block, key_step.key,
                                 createFooterAAD(fileAAD))
               THEN Throw("Could not decrypt the footer", file_crypto_metadata,
                          fileAAD, key_step.log)
               ELSE IF file_metadata.null
               THEN Throw("Could not deserialize", file_crypto_metadata, fileAAD,
                          key_step.log)
               ELSE Parsed("ok", "", file_metadata, file_crypto_metadata, fileAAD,
                           key_step.log)

\* SerializedFile::ParseMetaData; ub is what the out-of-bounds copy of a
\* wrapped length does.
ParseMetaData(source, properties, ub, log) ==
    IF source.file_size < FOOTER_SIZE
    THEN Parsed("ParquetException", "Corrupted file, smaller than file footer",
                NoFileMetaData, NoFileCryptoMetaData, NoFileAAD, log)
    ELSE IF source.readable /\ source.magic = "PAR1"
    THEN PlaintextFooter(source, properties, ub, log)
    ELSE IF source.readable /\ source.magic = "PARE"
    THEN EncryptedFooter(source, properties, ub, log)
    ELSE Parsed("ParquetException", "Invalid parquet file. Corrupt footer.",
                NoFileMetaData, NoFileCryptoMetaData, NoFileAAD, log)

-----------------------------------------------------------------------------
(* Files as a writer leaves them, and files changed afterwards.             *)

NumRowGroups == 2
NumColumns == 2

ColumnPathOf(column_ordinal) == IF column_ordinal = 1 THEN "a" ELSE "b"
ColumnKeyOf(path) == IF path = "a" THEN "ka" ELSE "kb"
ColumnKeyMetadataOf(path) == IF path = "a" THEN "md_a" ELSE "md_b"

CryptoKinds == {"none", "ENCRYPTION_WITH_FOOTER_KEY", "ENCRYPTION_WITH_COLUMN_KEY"}

\* The column chunk a writer leaves for a column of a row group.
WrittenColumnChunk(kind, footer_mode, file_aad, row_group_ordinal, column_ordinal) ==
    LET path == ColumnPathOf(column_ordinal)
        aad == createModuleAAD(file_aad, "ColumnMetaData", row_group_ordinal,
                               column_ordinal, -1)
        encrypt_md ==
            CASE kind = "ENCRYPTION_WITH_COLUMN_KEY" ->
                    ColumnEncryptMd(TRUE, FALSE, ColumnKeyMetadataOf(path))
              [] kind = "ENCRYPTION_WITH_FOOTER_KEY" -> ColumnEncryptMd(TRUE, TRUE, "")
              [] OTHER -> NoColumnEncryptMd
        key == IF kind = "ENCRYPTION_WITH_COLUMN_KEY" THEN ColumnKeyOf(path) ELSE "kf"
    IN ColumnChunkWriteTo(NewColumnChunk(NoColumnMetaData), path,
                          ColumnMetaData(path, 1, TRUE, FALSE), encrypt_md,
                          footer_mode # "encrypted", EncryptionProperties(key, aad))

WrittenRowGroups(layout, footer_mode, file_aad) ==
    [rg \in 1..NumRowGroups |->
        [c \in 1..NumColumns |->
            WrittenColumnChunk(layout[c], footer_mode, file_aad, rg, c)]]

\* The file a writer leaves: footer_mode is "plain" (no encryption), "signed"
\* (plaintext footer with signature) or "encrypted"; the AAD prefix is stored
\* in the file or has to be supplied by the reader; footer_key_metadata is
\* what the writer's properties carry as the key metadata of the footer key
\* "kf".
WrittenSourceWith(footer_mode, num_rows, aad_prefix, store_aad_prefix, layout, footer_key_metadata) ==
    LET file_aad == FileAAD(aad_prefix, "u")
        algo == EncryptionAlgorithm("AES_GCM_V1",
                    aad_prefix # "" /\ ~store_aad_prefix,
                    IF store_aad_prefix THEN aad_prefix ELSE "", "u")
        row_groups == WrittenRowGroups(layout, footer_mode, file_aad)
        plain == FileMetaData(num_rows, NoEncryptionAlgorithm, "", row_groups)
        signed == FileMetaData(num_rows, algo, footer_key_metadata, row_groups)
    IN CASE footer_mode = "plain" ->
              Source(DataLen + ThriftLen + FOOTER_SIZE, TRUE, "PAR1", U32Of(ThriftLen),
                     Serialize(plain), NoSignature, NoFileCryptoMetaData,
                     Encrypt(Serialize(NoFileMetaData), "", ""))
         [] footer_mode = "signed" ->
              Source(DataLen + ThriftLen + SignatureLen + FOOTER_SIZE, TRUE, "PAR1",
                     U32Of(ThriftLen + SignatureLen), Serialize(signed),
                     [nonce |-> 1,
                      tag |-> SignedFooterEncrypt(Serialize(signed), "kf",
                                                  createFooterAAD(file_aad), 1)],
                     NoFileCryptoMetaData, Encrypt(Serialize(NoFileMetaData), "", ""))
         [] OTHER ->
              Source(DataLen + CryptoLen + ThriftLen + FOOTER_SIZE, TRUE, "PARE",
                     U32Of(CryptoLen + ThriftLen), Serialize(NoFileMetaData),
                     NoSignature, FileCryptoMetaData(algo, footer_key_metadata),
                     Encrypt(Serialize(plain), "kf", createFooterAAD(file_aad)))

\* The file of a writer whose footer key has the key metadata "md_f".
WrittenSource(footer_mode, num_rows, aad_prefix, store_aad_prefix, layout) ==
    WrittenSourceWith(footer_mode, num_rows, aad_prefix, store_aad_prefix, layout,
                      "md_f")

FooterModes == {"plain", "signed", "encrypted"}
AadPrefixes == {"", "p"}

\* One byte of the footer Thrift block set to another value.
ChangeThriftByte(source, position, value) ==
    [source EXCEPT !.block.thrift[position] = value]

\* One byte of the nonce of the signature changed.
ChangeNonce(source) == [source EXCEPT !.signature.nonce = 2]

\* One byte of the tag of the signature changed.
ChangeTag(source) == [source EXCEPT !.signature.tag.changed = TRUE]

\* Every file that differs from source in one byte of the footer Thrift block
\* or of the signature.
OneByteChanged(source) ==
    ({ChangeThriftByte(source, position, value) :
        position \in 1..ThriftLen, value \in 0..2}
     \cup {ChangeNonce(source), ChangeTag(source)})
    \ {source}

\* Files whose last bytes are not what a writer leaves.
BadTrailers(source) ==
    {[source EXCEPT !.magic = "XXXX"],
     [source EXCEPT !.file_size = FOOTER_SIZE - 1],
     [source EXCEPT !.readable = FALSE],
     [source EXCEPT !.declared_len = U32Of(source.file_size)],
     [source EXCEPT !.declared_len = U32(32768, 0)],
     [source EXCEPT !.declared_len = U32(65535, 65535)],
     [source EXCEPT !.declared_len = U32(65535, 65528)]}

\* Every column encrypted with the footer key; no column encrypted.
UniformLayout == [c \in 1..NumColumns |-> "ENCRYPTION_WITH_FOOTER_KEY"]
PlainLayout == [c \in 1..NumColumns |-> "none"]

LayoutOf(footer_mode) == IF footer_mode = "plain" THEN PlainLayout ELSE UniformLayout

WrittenFooters ==
    {WrittenSource(mode, n, prefix, store, LayoutOf(mode)) :
        mode \in FooterModes, n \in 1..2, prefix \in AadPrefixes, store \in BOOLEAN}

SignedFooters ==
    {WrittenSource("signed", n, prefix, store, UniformLayout) :
        n \in 1..2, prefix \in AadPrefixes, store \in BOOLEAN}

ParseSources ==
    WrittenFooters
    \cup UNION {OneByteChanged(source) : source \in SignedFooters}
    \cup UNION {BadTrailers(WrittenSource(mode, 1, "", TRUE, LayoutOf(mode))) :
                    mode \in FooterModes}

ParseDecryptionProperties ==
    {NoFileDecryptionProperties}
    \cup {FileDecryptionProperties(footer_key, aad_prefix, check, retriever, verifier,
                                   EmptyMap) :
            footer_key \in {"", "kf", "kx"}, aad_prefix \in {"", "p", "q"},
            check \in BOOLEAN,
            retriever \in {NoKeyRetriever, KeyRetriever({}), KeyRetriever({"md_f"})},
            verifier \in {"null", "accepts", "rejects"}}

ParseProperties ==
    {ReaderProperties(file_decryption, "", FALSE, EmptyMap) :
        file_decryption \in ParseDecryptionProperties}

-----------------------------------------------------------------------------
(* SerializedFile.                                                          *)

\* The outcome of the last call: for GetColumnPageReader also the column, the
\* key of the page reader, the calls made to the key retriever and the
\* ColumnMetaData the ColumnChunkMetaData of the column holds.
ColRes(kind, what, column, key, calls, metadata) ==
    [op |-> "GetColumnPageReader", kind |-> kind, what |-> what, column |-> column,
     key |-> key, calls |-> calls, metadata |-> metadata]

RdRes(op, kind, what) ==
    [op |-> op, kind |-> kind, what |-> what, column |-> 0, key |-> "", calls |-> <<>>,
     metadata |-> NoColumnMetaData]
NoRdRes == RdRes("none", "ok", "")

NoReaderProperties == ReaderProperties(NoFileDecryptionProperties, "", TRUE, EmptyMap)

\* GetKey calls are counted up to MaxKeyCalls, which stands for MaxKeyCalls
\* calls or more.
MaxKeyCalls == 2

\* The key metadata of the columns' own keys.
ColumnKeyMetadatas == {ColumnKeyMetadataOf(ColumnPathOf(c)) : c \in 1..NumColumns}

NoKeyCalls == [key_metadata \in ColumnKeyMetadatas |-> 0]

\* The counts after the GetKey calls of one GetColumnPageReader.
KeyCallsAfter(key_calls, calls) ==
    [key_metadata \in ColumnKeyMetadatas |->
        LET made == Cardinality({n \in 1..Len(calls) :
                                    calls[n] = LogGetKey(key_metadata)})
        IN IF key_calls[key_metadata] + made > MaxKeyCalls
           THEN MaxKeyCalls
           ELSE key_calls[key_metadata] + made]

\* SerializedFile(source, props)
SerializedFile(source, props) ==
    /\ source_.null
    /\ source_' = source
    /\ reader_properties_' = props
    /\ file_metadata_' = NoFileMetaData
    /\ file_crypto_metadata_' = NoFileCryptoMetaData
    /\ rd_log' = <<>>
    /\ rd_res' = NoRdRes
    /\ row_group_ordinal_' = 0
    /\ rd_key_calls' = NoKeyCalls
    /\ UNCHANGED notRd

\* ParquetFileReader::Contents::Open calls ParseMetaData once, right after
\* the constructor.
CallParseMetaData(ub) ==
    /\ ~source_.null
    /\ rd_res.op = "none"
    /\ LET parsed == ParseMetaData(source_, reader_properties_, ub, rd_log)
       IN /\ file_metadata_' = parsed.file_metadata
          /\ file_crypto_metadata_' = parsed.file_crypto_metadata
          /\ reader_properties_' =
                [reader_properties_ EXCEPT !.fileAAD = parsed.fileAAD]
          /\ rd_log' = parsed.log
          /\ rd_res' = RdRes("ParseMetaData", parsed.kind, parsed.what)
    /\ UNCHANGED <<source_, row_group_ordinal_, rd_key_calls>>
    /\ UNCHANGED notRd

ParseNext ==
    \/ \E source \in ParseSources, props \in ParseProperties :
          SerializedFile(source, props)
    \/ \E ub \in UbOutcomes : CallParseMetaData(ub)

ParseMetaDataCalled == rd_res.op = "ParseMetaData"

\* The reader has the key of the footer: given explicitly, or returned by its
\* key retriever.
HasFooterKey(file_decryption) ==
    /\ ~file_decryption.null
    /\ \/ file_decryption.footer_key = "kf"
       \/ /\ file_decryption.footer_key = ""
          /\ ~file_decryption.key_retriever.null
          /\ "md_f" \notin file_decryption.key_retriever.denied

\* The files written with an AAD prefix that is not stored in the file.
PrefixNotStored ==
    {WrittenSource(mode, n, "p", FALSE, UniformLayout) :
        mode \in {"signed", "encrypted"}, n \in 1..2}

\* C16: for a file written with an AAD prefix that is not stored in the file
\* (supply_aad_prefix), with a plaintext or an encrypted footer, ParseMetaData
\* of a reader that has the footer key, and whose prefix verifier, if any,
\* accepts, succeeds exactly when the reader supplies the prefix of the writer.
C16_SuppliedAadPrefix ==
    LET file_decryption == reader_properties_.file_decryption
    IN (/\ ParseMetaDataCalled
        /\ source_ \in PrefixNotStored
        /\ HasFooterKey(file_decryption)
        /\ file_decryption.aad_prefix_verifier # "rejects")
       => (rd_res.kind = "ok" <=> file_decryption.aad_prefix = "p")

\* The reader can compute the file AAD of a file whose prefix, if any, is
\* stored in the file.
PrefixStoredAndAccepted(source, file_decryption) ==
    /\ ~Deserialize(source.block).encryption_algorithm.aad.supply_aad_prefix
    /\ \/ file_decryption.aad_prefix = ""
       \/ /\ file_decryption.aad_prefix
                = Deserialize(source.block).encryption_algorithm.aad.aad_prefix
          /\ file_decryption.aad_prefix_verifier # "rejects"

ChangedFooters == UNION {OneByteChanged(source) : source \in SignedFooters}

\* C17: for a plaintext footer with signature, read with check_footer_integrity
\* and the footer key, ParseMetaData succeeds on the file as written and
\* throws on every file that differs from it in one byte of the footer Thrift
\* block or of the 28-byte signature.
C17_FooterIntegrity ==
    LET file_decryption == reader_properties_.file_decryption
    IN (/\ ParseMetaDataCalled
        /\ HasFooterKey(file_decryption)
        /\ file_decryption.check_footer_integrity)
       => /\ (source_ \in SignedFooters
                /\ PrefixStoredAndAccepted(source_, file_decryption))
               => rd_res.kind = "ok"
          /\ source_ \in ChangedFooters => rd_res.kind = "ParquetException"

\* The length before the magic, plus the 8 bytes of length and magic, is more
\* than the file has.
DeclaredLengthExceedsFile(source) ==
    \/ source.declared_len.hi > 0
    \/ source.declared_len.lo + FOOTER_SIZE > source.file_size

\* C18: ParseMetaData of a file that ends in PAR1 never creates a
\* FileCryptoMetaData; of a file that ends in PARE it has parsed the
\* FileCryptoMetaData when it asks for the footer key and decrypts the footer;
\* for any other trailer, a file shorter than 8 bytes or a declared length that
\* exceeds the file size it throws a ParquetException.
C18_TrailerDispatch ==
    ParseMetaDataCalled =>
        /\ (source_.file_size >= FOOTER_SIZE /\ source_.readable
              /\ source_.magic = "PAR1") => file_crypto_metadata_.null
        /\ (source_.magic = "PARE"
              /\ (rd_res.kind = "ok"
                   \/ \E n \in 1..Len(rd_log) : rd_log[n].call = "GetKey"
                   \/ rd_res.what = "Could not decrypt the footer"))
             => (~file_crypto_metadata_.null
                 /\ file_crypto_metadata_ = source_.crypto)
        /\ (\/ source_.file_size < FOOTER_SIZE
            \/ ~source_.readable
            \/ source_.magic \notin {"PAR1", "PARE"}
            \/ DeclaredLengthExceedsFile(source_))
             => rd_res.kind = "ParquetException"

-----------------------------------------------------------------------------
(* SerializedRowGroup::GetColumnPageReader and ColumnChunkMetaData.         *)

\* What a step of GetColumnPageReader leaves behind: the exception or "ok",
\* the key found, the shared column_map and the calls to the key retriever.
ColStep(kind, what, key, column_map, calls) ==
    [kind |-> kind, what |-> what, key |-> key, column_map |-> column_map,
     calls |-> calls]

\* ColumnChunkMetaData::ColumnChunkMetaDataImpl: the metadata of a column
\* encrypted with its own key is decrypted with the key of column_map, the
\* explicit key or the key of the key retriever.
ColumnChunkMetaData(column, row_group_ordinal, column_ordinal, file_decryption, fileAAD, column_map_null, column_map) ==
    LET path == column.path_in_schema
        key_metadata == column.key_metadata
        in_map == ~column_map_null /\ path \in DOMAIN column_map
        explicit == getColumnKey(file_decryption, path)
        retrieve == explicit = "" /\ key_metadata # ""
                    /\ ~file_decryption.key_retriever.null
        calls == IF ~in_map /\ retrieve THEN <<LogGetKey(key_metadata)>> ELSE <<>>
        key == IF in_map THEN column_map[path]
               ELSE IF retrieve THEN RetrievedKey(key_metadata)
               ELSE explicit
        saved == IF in_map \/ column_map_null THEN column_map
                 ELSE MapPut(column_map, path, key)
        aad == createModuleAAD(fileAAD, "ColumnMetaData", row_group_ordinal,
                               column_ordinal, -1)
    IN IF column.crypto_metadata # "ENCRYPTION_WITH_COLUMN_KEY"
       THEN ColStep("ok", "", "", column_map, <<>>)
       ELSE IF file_decryption.null
       THEN ColStep("ParquetException", "Cannot decrypt ColumnMetadata", "", column_map,
                    <<>>)
       ELSE IF ~in_map /\ retrieve
               /\ key_metadata \in file_decryption.key_retriever.denied
       THEN ColStep("HiddenColumnException", "key access denied", "", column_map, calls)
       ELSE IF ~in_map /\ retrieve /\ key = ""
       THEN ColStep("HiddenColumnException", "key unavailable", "", column_map, calls)
       ELSE IF key = ""
       THEN ColStep("HiddenColumnException", "key unavailable", "", saved, calls)
       ELSE IF column.encrypted_column_metadata.key # key
               \/ column.encrypted_column_metadata.aad # aad
       THEN ColStep("ParquetException", "Could not decrypt the column metadata", key,
                    saved, calls)
       ELSE ColStep("ok", "", key, saved, calls)

\* ColumnChunkMetaDataImpl::metadata_ after the constructor returned: the
\* meta_data of the column chunk, replaced by the decrypted
\* encrypted_column_metadata only for ENCRYPTION_WITH_COLUMN_KEY.
ColumnChunkMetaData_metadata(column) ==
    IF column.crypto_metadata = "ENCRYPTION_WITH_COLUMN_KEY"
    THEN column.encrypted_column_metadata.meta_data
    ELSE column.meta_data

\* GetColumnPageReader, the column is encrypted with the footer key.
FooterKeyColumn(file_metadata, file_crypto_metadata, file_decryption, column_map, calls) ==
    LET footer_key_metadata == IF is_plaintext_mode(file_metadata)
                               THEN file_metadata.footer_signing_key_metadata
                               ELSE file_crypto_metadata.key_metadata
        asked == Append(calls, LogGetKey(footer_key_metadata))
    IN IF file_decryption.footer_key # ""
       THEN ColStep("ok", "", file_decryption.footer_key, column_map, calls)
       ELSE IF footer_key_metadata = ""
       THEN ColStep("ParquetException", "No footer key or key metadata", "", column_map,
                    calls)
       ELSE IF file_decryption.key_retriever.null
       THEN ColStep("ParquetException", "No footer key or key retriever", "",
                    column_map, calls)
       ELSE IF footer_key_metadata \in file_decryption.key_retriever.denied
       THEN ColStep("KeyAccessDeniedException", "key access denied", "", column_map,
                    asked)
       ELSE IF RetrievedKey(footer_key_metadata) = ""
       THEN ColStep("ParquetException", "column is encrypted with null footer key", "",
                    column_map, asked)
       ELSE ColStep("ok", "", RetrievedKey(footer_key_metadata), column_map, asked)

\* GetColumnPageReader, the column is encrypted with its own key; ub is what
\* file_crypto_metadata_->encryption_algorithm() does when the pointer is null.
OwnKeyColumn(column, file_crypto_metadata, file_decryption, column_map_null, column_map, calls, ub) ==
    LET path == column.path_in_schema
        column_key_metadata == column.key_metadata
        in_map == ~column_map_null /\ path \in DOMAIN column_map
        explicit == getColumnKey(file_decryption, path)
        retrieve == explicit = "" /\ column_key_metadata # ""
                    /\ ~file_decryption.key_retriever.null
        asked == IF ~in_map /\ retrieve
                 THEN Append(calls, LogGetKey(column_key_metadata))
                 ELSE calls
        column_key == IF in_map THEN column_map[path]
                      ELSE IF retrieve THEN RetrievedKey(column_key_metadata)
                      ELSE explicit
    IN IF ~in_map /\ retrieve
          /\ column_key_metadata \in file_decryption.key_retriever.denied
       THEN ColStep("HiddenColumnException", "key access denied", "", column_map, asked)
       ELSE IF column_key = ""
       THEN ColStep("HiddenColumnException", "column is encrypted with null key", "",
                    column_map, asked)
       ELSE IF file_crypto_metadata.null /\ ub = "crash"
       THEN ColStep("crash", "", "", column_map, asked)
       ELSE ColStep("ok", "", column_key, column_map, asked)

\* SerializedRowGroup::GetColumnPageReader(i) of the row group
\* row_group_ordinal.
PageReaderOf(i, row_group_ordinal, file_metadata, file_crypto_metadata, properties, ub) ==
    LET column == file_metadata.row_groups[row_group_ordinal][i]
        file_decryption == properties.file_decryption
        col == ColumnChunkMetaData(column, row_group_ordinal, i, file_decryption,
                                   properties.fileAAD, properties.column_map_null,
                                   properties.column_map)
        encrypted == ~(\/ (file_crypto_metadata.null /\ ~is_plaintext_mode(file_metadata))
                       \/ column.crypto_metadata = "none")
    IN IF col.kind # "ok"
       THEN col
       ELSE IF ~encrypted
       THEN ColStep("ok", "", "", col.column_map, col.calls)
       ELSE IF column.crypto_metadata = "ENCRYPTION_WITH_FOOTER_KEY"
       THEN FooterKeyColumn(file_metadata, file_crypto_metadata, file_decryption,
                            col.column_map, col.calls)
       ELSE OwnKeyColumn(column, file_crypto_metadata, file_decryption,
                         properties.column_map_null, col.column_map, col.calls, ub)

\* ParseMetaData returned and nothing has crashed since: the file is open.
IsOpen ==
    /\ ~source_.null
    /\ rd_res.op # "none"
    /\ rd_res.kind # "crash"
    /\ rd_res.op = "ParseMetaData" => rd_res.kind = "ok"

\* SerializedFile::GetRowGroup(i)
GetRowGroup(i) ==
    /\ IsOpen
    /\ row_group_ordinal_' = i
    /\ UNCHANGED <<source_, reader_properties_, file_metadata_, file_crypto_metadata_,
                   rd_log, rd_res, rd_key_calls>>
    /\ UNCHANGED notRd

\* SerializedRowGroup::GetColumnPageReader(i) on the row group reader obtained
\* last.
GetColumnPageReader(i, ub) ==
    /\ IsOpen
    /\ row_group_ordinal_ # 0
    /\ LET step == PageReaderOf(i, row_group_ordinal_, file_metadata_,
                                file_crypto_metadata_, reader_properties_, ub)
       IN /\ reader_properties_' =
                [reader_properties_ EXCEPT !.column_map = step.column_map]
          /\ rd_res' = ColRes(step.kind, step.what, i, step.key, step.calls,
                               IF step.kind = "ok"
                               THEN ColumnChunkMetaData_metadata(
                                        file_metadata_.row_groups[row_group_ordinal_][i])
                               ELSE NoColumnMetaData)
          /\ rd_key_calls' = KeyCallsAfter(rd_key_calls, step.calls)
    /\ UNCHANGED <<source_, file_metadata_, file_crypto_metadata_, rd_log,
                   row_group_ordinal_>>
    /\ UNCHANGED notRd

\* Files with every combination of unencrypted columns, columns encrypted with
\* the footer key and columns encrypted with their own key in the first two
\* columns.
ReaderLayouts ==
    {[c \in 1..NumColumns |-> IF c = 1 THEN k1 ELSE IF c = 2 THEN k2 ELSE "none"] :
        k1 \in CryptoKinds, k2 \in CryptoKinds}

\* The first column is encrypted with the footer key, the others are not
\* encrypted.
FooterKeyLayout ==
    [c \in 1..NumColumns |-> IF c = 1 THEN "ENCRYPTION_WITH_FOOTER_KEY" ELSE "none"]

\* The files read: written with the footer key metadata "md_f", and files
\* whose footer key has no key metadata ("") or one for which the key
\* retriever returns an empty key ("md_x").
ReaderSources ==
    {WrittenSource("plain", 1, "", TRUE, PlainLayout)}
    \cup {WrittenSource(mode, 1, "", TRUE, layout) :
            mode \in {"signed", "encrypted"}, layout \in ReaderLayouts}
    \cup {WrittenSourceWith(mode, 1, "", TRUE, FooterKeyLayout, footer_key_metadata) :
            mode \in {"signed", "encrypted"}, footer_key_metadata \in {"", "md_x"}}

ReaderDecryptionProperties ==
    {FileDecryptionProperties(footer_key, "", check, retriever, "null", column_keys) :
        footer_key \in {"", "kf", "kx"}, check \in BOOLEAN,
        retriever \in {NoKeyRetriever, KeyRetriever({}), KeyRetriever({"md_a"}),
                       KeyRetriever({"md_f"})},
        column_keys \in {EmptyMap, "b" :> "kb"}}

ReaderPropertiesChoices ==
    {ReaderProperties(file_decryption, "", column_map_null, EmptyMap) :
        file_decryption \in ReaderDecryptionProperties, column_map_null \in BOOLEAN}

ReaderNext ==
    \/ \E source \in ReaderSources, props \in ReaderPropertiesChoices :
          SerializedFile(source, props)
    \/ \E ub \in UbOutcomes : CallParseMetaData(ub)
    \/ \E i \in 1..NumRowGroups : GetRowGroup(i)
    \/ \E i \in 1..NumColumns, ub \in UbOutcomes : GetColumnPageReader(i, ub)

\* The reader can get the key a column of the open file is encrypted with, or
\* the column is not encrypted.
KeyAvailable(i) ==
    LET column == file_metadata_.row_groups[1][i]
        file_decryption == reader_properties_.file_decryption
        path == column.path_in_schema
    IN CASE column.crypto_metadata = "none" -> TRUE
         [] column.crypto_metadata = "ENCRYPTION_WITH_FOOTER_KEY" ->
                HasFooterKey(file_decryption)
         [] OTHER ->
                \/ getColumnKey(file_decryption, path) = ColumnKeyOf(path)
                \/ /\ getColumnKey(file_decryption, path) = ""
                   /\ ~file_decryption.key_retriever.null
                   /\ column.key_metadata \notin file_decryption.key_retriever.denied

\* GetColumnPageReader(i) has just thrown HiddenColumnException.
HiddenColumn(i) ==
    /\ rd_res.op = "GetColumnPageReader"
    /\ rd_res.kind = "HiddenColumnException"
    /\ rd_res.column = i

\* C14: after GetColumnPageReader(i) threw HiddenColumnException, the next
\* GetColumnPageReader(j) for another column j that is not encrypted or whose
\* key the reader can get succeeds, in the same or in any other row group.
C14_HiddenColumnLeavesReaderUsable ==
    [][\A i \in 1..NumColumns, j \in 1..NumColumns :
          (/\ HiddenColumn(i)
           /\ j # i
           /\ KeyAvailable(j)
           /\ rd_res'.op = "GetColumnPageReader"
           /\ rd_res'.column = j)
          => rd_res'.kind = "ok"]_vars

\* The key retriever threw KeyAccessDeniedException in the call.
KeyAccessDenied(calls) ==
    \E n \in 1..Len(calls) :
        calls[n].arg \in reader_properties_.file_decryption.key_retriever.denied

\* C15: a KeyAccessDeniedException of the key retriever in GetColumnPageReader,
\* for the column's own key or for the footer key, comes out as
\* HiddenColumnException; in ParseMetaData it comes out as ParquetException,
\* never as HiddenColumnException, and the file is not opened.
C15_KeyAccessDeniedIsHiddenColumn ==
    /\ (rd_res.op = "GetColumnPageReader" /\ KeyAccessDenied(rd_res.calls))
          => rd_res.kind = "HiddenColumnException"
    /\ (rd_res.op = "ParseMetaData" /\ KeyAccessDenied(rd_log))
          => rd_res.kind = "ParquetException"

\* The key metadata of the footer key as the file carries it: in the
\* FileCryptoMetaData of an encrypted footer, in the FileMetaData of a
\* plaintext footer.
FooterKeyMetadataOf(source) ==
    IF source.magic = "PARE"
    THEN source.crypto.key_metadata
    ELSE Deserialize(source.block).footer_signing_key_metadata

\* ParseMetaData needs the footer key of the file: to decrypt an encrypted
\* footer, or to verify a signed plaintext footer when checkFooterIntegrity
\* is set.
FooterKeyNeededToParse ==
    /\ rd_res.op = "ParseMetaData"
    /\ ~reader_properties_.file_decryption.null
    /\ \/ source_.magic = "PARE"
       \/ /\ is_plaintext_mode(Deserialize(source_.block))
          /\ reader_properties_.file_decryption.check_footer_integrity

\* GetColumnPageReader was called for a column encrypted with the footer key.
FooterKeyNeededForColumn ==
    /\ rd_res.op = "GetColumnPageReader"
    /\ file_metadata_.row_groups[row_group_ordinal_][rd_res.column].crypto_metadata
          = "ENCRYPTION_WITH_FOOTER_KEY"

\* Without an explicit footer key there is no way to one: the file has no
\* footer key metadata, no key retriever is configured, or the key retriever
\* returns an empty key.
NoWayToFooterKey ==
    LET file_decryption == reader_properties_.file_decryption
        footer_key_metadata == FooterKeyMetadataOf(source_)
    IN /\ file_decryption.footer_key = ""
       /\ \/ footer_key_metadata = ""
          \/ file_decryption.key_retriever.null
          \/ /\ footer_key_metadata \notin file_decryption.key_retriever.denied
             /\ RetrievedKey(footer_key_metadata) = ""

GetKeyCalled(calls) == \E n \in 1..Len(calls) : calls[n].call = "GetKey"

\* C23: wherever the reader needs the footer key (verification of a signed
\* footer, decryption of an encrypted footer, a column encrypted with the
\* footer key), an explicit footer key of the decryption properties is the key
\* used and the key retriever is not called; without an explicit key the read
\* fails with a ParquetException when the file has no footer key metadata, no
\* key retriever is configured or the retrieved key is empty.
C23_ExplicitFooterKey ==
    LET explicit == reader_properties_.file_decryption.footer_key
    IN /\ FooterKeyNeededToParse =>
             /\ explicit # "" =>
                   /\ ~GetKeyCalled(rd_log)
                   /\ rd_res.kind = "ok" <=> explicit = "kf"
             /\ NoWayToFooterKey => rd_res.kind = "ParquetException"
       /\ FooterKeyNeededForColumn =>
             /\ explicit # "" =>
                   /\ ~GetKeyCalled(rd_res.calls)
                   /\ rd_res.kind = "ok"
                   /\ rd_res.key = explicit
             /\ NoWayToFooterKey => rd_res.kind = "ParquetException"

\* the page reader of a footer-key column was opened with the explicit footer
\* key of a reader whose key retriever would have granted the key, after the
\* signed footer had been verified with it
C23_Witness ==
    /\ FooterKeyNeededForColumn
    /\ reader_properties_.file_decryption.footer_key = "kf"
    /\ reader_properties_.file_decryption.check_footer_integrity
    /\ source_.magic = "PAR1"
    /\ reader_properties_.file_decryption.key_retriever = KeyRetriever({})
    /\ FooterKeyMetadataOf(source_) = "md_f"
    /\ rd_res.kind = "ok"
    /\ rd_res.key = "kf"

\* The files written with the AAD prefix "p", stored in the file or not.
WrittenWithAadPrefix ==
    {WrittenSource(mode, n, "p", store, UniformLayout) :
        mode \in {"signed", "encrypted"}, n \in 1..2, store \in BOOLEAN}

\* C26: when the decryption properties carry an AADPrefixVerifier and the
\* file was written with an AAD prefix, ParseMetaData calls the verifier on
\* the prefix the file AAD is built from before it retrieves a footer key and
\* before it decrypts or verifies a footer, also when the prefix is the one
\* stored in the file because the reader supplied none.
C26_AadPrefixVerifiedFirst ==
    LET file_decryption == reader_properties_.file_decryption
    IN (/\ ParseMetaDataCalled
        /\ source_ \in WrittenWithAadPrefix
        /\ ~file_decryption.null
        /\ file_decryption.aad_prefix_verifier # "null"
        /\ (rd_res.kind = "ok" \/ GetKeyCalled(rd_log)))
       => /\ rd_log # <<>>
          /\ rd_log[1] = LogCheck("p")

\* C27: GetColumnPageReader does not use the file crypto metadata when there
\* is none: in a file with a plaintext footer, the page reader of a column
\* encrypted with its own key opens whenever the key of the column is
\* available.
C27_NoFileCryptoMetaDataNeeded ==
    \A i \in 1..NumColumns :
        (/\ rd_res.op = "GetColumnPageReader"
         /\ rd_res.column = i
         /\ file_crypto_metadata_.null
         /\ is_plaintext_mode(file_metadata_)
         /\ file_metadata_.row_groups[row_group_ordinal_][i].crypto_metadata
               = "ENCRYPTION_WITH_COLUMN_KEY"
         /\ KeyAvailable(i))
        => rd_res.kind = "ok"

\* C29: with a shared column-key map, once the key of a column path was
\* obtained every later ColumnChunk / GetColumnPageReader call for the path, in
\* the same or another row group, takes the key from the map and does not
\* call the key retriever again, so the key retriever is asked for the key of
\* a path it grants at most once; and the map holds no entry for a path whose
\* retrieval ended in KeyAccessDenied.
C29_ColumnKeyFromMap ==
    ~reader_properties_.column_map_null =>
        \A i \in 1..NumColumns :
            LET path == ColumnPathOf(i)
                key_metadata == ColumnKeyMetadataOf(path)
                column_map == reader_properties_.column_map
                denied == reader_properties_.file_decryption.key_retriever.denied
            IN /\ key_metadata \notin denied => rd_key_calls[key_metadata] <= 1
               /\ (key_metadata \in denied /\ rd_key_calls[key_metadata] > 0)
                     => path \notin DOMAIN column_map
               /\ (/\ rd_res.op = "GetColumnPageReader"
                   /\ rd_res.column = i
                   /\ rd_res.kind = "ok"
                   /\ file_metadata_.row_groups[row_group_ordinal_][i].crypto_metadata
                         = "ENCRYPTION_WITH_COLUMN_KEY")
                     => /\ path \in DOMAIN column_map
                        /\ rd_res.key = column_map[path]

\* the page reader of column a was opened in the second row group with the
\* key of the map and no call to the key retriever, which had been asked for
\* the key once before
C29_Witness ==
    /\ ~reader_properties_.column_map_null
    /\ rd_res.op = "GetColumnPageReader"
    /\ rd_res.column = 1
    /\ row_group_ordinal_ = 2
    /\ rd_res.kind = "ok"
    /\ rd_res.calls = <<>>
    /\ rd_res.key = "ka"
    /\ rd_key_calls["md_a"] = 1
    /\ reader_properties_.column_map["a"] = "ka"

\* The ColumnMetaData the writer built for a column of the files read here.
WrittenColumnMetaData(i) == ColumnMetaData(ColumnPathOf(i), 1, TRUE, FALSE)

\* GetColumnPageReader(i) has just returned a page reader for a column marked
\* ENCRYPTION_WITH_FOOTER_KEY.
FooterKeyColumnOpened(i) ==
    /\ rd_res.op = "GetColumnPageReader"
    /\ rd_res.kind = "ok"
    /\ rd_res.column = i
    /\ file_metadata_.row_groups[row_group_ordinal_][i].crypto_metadata
          = "ENCRYPTION_WITH_FOOTER_KEY"

\* C21: for every column chunk marked ENCRYPTION_WITH_FOOTER_KEY, the reader
\* that opened the column with the footer key holds the full ColumnMetaData
\* the writer built, statistics included, also when the writer stored it in
\* encrypted_column_metadata and left a redacted meta_data (plaintext footer).
C21_FooterKeyColumnMetaData ==
    \A i \in 1..NumColumns :
        FooterKeyColumnOpened(i) => rd_res.metadata = WrittenColumnMetaData(i)

-----------------------------------------------------------------------------
(* The metadata builders of the writer: FileMetaDataBuilder and             *)
(* ColumnChunkMetaDataBuilder.                                              *)

\* FileEncryptionProperties as the builders read them: encryptedFooter,
\* getAlgorithm, getFooterEncryptionKeyMetadata, getFooterSigningKeyMetadata.
FileEncryption(encrypted_footer, algorithm, footer_encryption_key_metadata, footer_signing_key_metadata) ==
    [null |-> FALSE, encrypted_footer |-> encrypted_footer, algorithm |-> algorithm,
     footer_encryption_key_metadata |-> footer_encryption_key_metadata,
     footer_signing_key_metadata |-> footer_signing_key_metadata]

NoFileEncryption == [FileEncryption(FALSE, NoEncryptionAlgorithm, "", "") EXCEPT !.null = TRUE]

\* WriterProperties: file_encryption() and the encryption properties of the
\* columns by path.
WriterProperties(file_encryption, columns) ==
    [null |-> FALSE, file_encryption |-> file_encryption, columns |-> columns]

NoWriterProperties == [WriterProperties(NoFileEncryption, EmptyMap) EXCEPT !.null = TRUE]

\* WriterProperties::footer_encryption() == nullptr: the file is not encrypted
\* or its footer is plaintext.
FooterEncryptionIsNull(props) ==
    props.file_encryption.null \/ ~props.file_encryption.encrypted_footer

\* WriterProperties::column_encryption_props(path)
column_encryption_props(props, path) ==
    IF props.file_encryption.null \/ path \notin DOMAIN props.columns
    THEN NoColumnEncryptMd
    ELSE props.columns[path]

\* The writer signs a plaintext footer: what it passes to Finish as
\* signing_algorithm (not set: NULLPTR) and as footer_signing_key_metadata.
SigningAlgorithmOf(props) ==
    IF ~props.file_encryption.null /\ ~props.file_encryption.encrypted_footer
    THEN props.file_encryption.algorithm
    ELSE NoEncryptionAlgorithm

SigningKeyMetadataOf(props) ==
    IF ~props.file_encryption.null /\ ~props.file_encryption.encrypted_footer
    THEN props.file_encryption.footer_signing_key_metadata
    ELSE ""

\* format::RowGroup
RowGroup(num_rows) == [num_rows |-> num_rows]

RECURSIVE TotalRows(_)
TotalRows(row_groups) ==
    IF row_groups = <<>> THEN 0
    ELSE Head(row_groups).num_rows + TotalRows(Tail(row_groups))

\* The last builder call, and whether Finish and BuildFileCryptoMetaData have
\* been called.
MbRes(op, finished, built) == [op |-> op, finished |-> finished, built |-> built]
NoMbRes == MbRes("none", FALSE, FALSE)

\* FileMetaDataBuilder::FileMetaDataBuilderImpl, crypto_metadata_ created
\* whatever the properties say.
FileMetaDataBuilder_AlwaysCrypto(props) ==
    /\ writer_properties_.null
    /\ writer_properties_' = props
    /\ metadata_' = FileMetaData(0, NoEncryptionAlgorithm, "", <<>>)
    /\ crypto_metadata_' = FileCryptoMetaData(NoEncryptionAlgorithm, "")
    /\ row_groups_' = <<>>
    /\ column_' = ""
    /\ column_metadata_' = NoColumnMetaData
    /\ column_chunk_' = NewColumnChunk(NoColumnMetaData)
    /\ finished_file_metadata' = NoFileMetaData
    /\ built_file_crypto_metadata' = NoFileCryptoMetaData
    /\ mb_res' = MbRes("FileMetaDataBuilder", FALSE, FALSE)
    /\ UNCHANGED notMb

\* FileMetaDataBuilder::FileMetaDataBuilderImpl
FileMetaDataBuilder(props) ==
    /\ writer_properties_.null
    /\ writer_properties_' = props
    /\ metadata_' = FileMetaData(0, NoEncryptionAlgorithm, "", <<>>)
    /\ crypto_metadata_' = IF ~FooterEncryptionIsNull(props)
                           THEN FileCryptoMetaData(NoEncryptionAlgorithm, "")
                           ELSE NoFileCryptoMetaData
    /\ row_groups_' = <<>>
    /\ column_' = ""
    /\ column_metadata_' = NoColumnMetaData
    /\ column_chunk_' = NewColumnChunk(NoColumnMetaData)
    /\ finished_file_metadata' = NoFileMetaData
    /\ built_file_crypto_metadata' = NoFileCryptoMetaData
    /\ mb_res' = MbRes("FileMetaDataBuilder", FALSE, FALSE)
    /\ UNCHANGED notMb

\* FileMetaDataBuilder::AppendRowGroup
AppendRowGroup ==
    /\ ~writer_properties_.null
    /\ ~metadata_.null
    /\ Len(row_groups_) < NumRowGroups
    /\ row_groups_' = Append(row_groups_, RowGroup(0))
    /\ mb_res' = [mb_res EXCEPT !.op = "AppendRowGroup"]
    /\ UNCHANGED <<writer_properties_, metadata_, crypto_metadata_, column_,
                   column_metadata_, column_chunk_, finished_file_metadata,
                   built_file_crypto_metadata>>
    /\ UNCHANGED notMb

\* RowGroupMetaDataBuilder::set_num_rows on the row group appended last
set_num_rows(num_rows) ==
    /\ ~writer_properties_.null
    /\ ~metadata_.null
    /\ row_groups_ # <<>>
    /\ row_groups_' = [row_groups_ EXCEPT ![Len(row_groups_)].num_rows = num_rows]
    /\ mb_res' = [mb_res EXCEPT !.op = "set_num_rows"]
    /\ UNCHANGED <<writer_properties_, metadata_, crypto_metadata_, column_,
                   column_metadata_, column_chunk_, finished_file_metadata,
                   built_file_crypto_metadata>>
    /\ UNCHANGED notMb

\* ColumnChunkMetaDataBuilderImpl(props, column, column_chunk) and Init:
\* contents is the meta_data of the format::ColumnChunk handed in.
ColumnChunkMetaDataBuilder(path, contents) ==
    /\ ~writer_properties_.null
    /\ column_' = path
    /\ column_chunk_' = NewColumnChunk(contents)
    /\ column_metadata_' = [contents EXCEPT !.path_in_schema = path]
    /\ mb_res' = [mb_res EXCEPT !.op = "ColumnChunkMetaDataBuilder"]
    /\ UNCHANGED <<writer_properties_, metadata_, crypto_metadata_, row_groups_,
                   finished_file_metadata, built_file_crypto_metadata>>
    /\ UNCHANGED notMb

\* ColumnChunkMetaDataBuilder::SetStatistics
SetStatistics ==
    /\ column_ # ""
    /\ column_metadata_' = [column_metadata_ EXCEPT !.isset_statistics = TRUE]
    /\ mb_res' = [mb_res EXCEPT !.op = "SetStatistics"]
    /\ UNCHANGED <<writer_properties_, metadata_, crypto_metadata_, row_groups_,
                   column_, column_chunk_, finished_file_metadata,
                   built_file_crypto_metadata>>
    /\ UNCHANGED notMb

\* ColumnChunkMetaDataBuilder::Finish
ColumnChunkMetaDataBuilder_Finish(num_values) ==
    /\ column_ # ""
    /\ column_metadata_' = [column_metadata_ EXCEPT !.num_values = num_values]
    /\ mb_res' = [mb_res EXCEPT !.op = "ColumnChunkMetaDataBuilder::Finish"]
    /\ UNCHANGED <<writer_properties_, metadata_, crypto_metadata_, row_groups_,
                   column_, column_chunk_, finished_file_metadata,
                   built_file_crypto_metadata>>
    /\ UNCHANGED notMb

\* ColumnChunkMetaDataBuilder::WriteTo(sink, encryption)
ColumnChunkMetaDataBuilder_WriteTo(encryption) ==
    /\ column_ # ""
    /\ column_chunk_' =
          ColumnChunkWriteTo(column_chunk_, column_, column_metadata_,
                             column_encryption_props(writer_properties_, column_),
                             FooterEncryptionIsNull(writer_properties_), encryption)
    /\ mb_res' = [mb_res EXCEPT !.op = "WriteTo"]
    /\ UNCHANGED <<writer_properties_, metadata_, crypto_metadata_, row_groups_,
                   column_, column_metadata_, finished_file_metadata,
                   built_file_crypto_metadata>>
    /\ UNCHANGED notMb

\* FileMetaDataBuilder::Finish(signing_algorithm, footer_signing_key_metadata):
\* metadata_ is moved into the FileMetaData returned.
FileMetaDataBuilder_Finish(signing_algorithm, footer_signing_key_metadata) ==
    /\ ~writer_properties_.null
    /\ ~metadata_.null
    /\ finished_file_metadata' =
          FileMetaData(TotalRows(row_groups_), signing_algorithm,
                       IF signing_algorithm.isset THEN footer_signing_key_metadata
                       ELSE "",
                       row_groups_)
    /\ metadata_' = NoFileMetaData
    /\ mb_res' = [mb_res EXCEPT !.op = "Finish", !.finished = TRUE]
    /\ UNCHANGED <<writer_properties_, crypto_metadata_, row_groups_, column_,
                   column_metadata_, column_chunk_, built_file_crypto_metadata>>
    /\ UNCHANGED notMb

\* FileMetaDataBuilder::BuildFileCryptoMetaData: nullptr without
\* crypto_metadata_, which is moved into the FileCryptoMetaData returned.
BuildFileCryptoMetaData ==
    /\ ~writer_properties_.null
    /\ LET file_encryption == writer_properties_.file_encryption
           key_metadata == IF file_encryption.encrypted_footer
                           THEN file_encryption.footer_encryption_key_metadata
                           ELSE file_encryption.footer_signing_key_metadata
       IN IF crypto_metadata_.null
          THEN UNCHANGED <<crypto_metadata_, built_file_crypto_metadata>>
          ELSE /\ built_file_crypto_metadata' =
                     FileCryptoMetaData(file_encryption.algorithm, key_metadata)
               /\ crypto_metadata_' = NoFileCryptoMetaData
    /\ mb_res' = [mb_res EXCEPT !.op = "BuildFileCryptoMetaData", !.built = TRUE]
    /\ UNCHANGED <<writer_properties_, metadata_, row_groups_, column_,
                   column_metadata_, column_chunk_, finished_file_metadata>>
    /\ UNCHANGED notMb

WriterAlgorithm == EncryptionAlgorithm("AES_GCM_V1", FALSE, "", "u")

WriterFileEncryptions ==
    {FileEncryption(TRUE, WriterAlgorithm, "md_f", ""),
     FileEncryption(FALSE, WriterAlgorithm, "", "md_f")}

WriterColumnChoices ==
    {NoColumnEncryptMd, ColumnEncryptMd(FALSE, FALSE, ""), ColumnEncryptMd(TRUE, TRUE, ""),
     ColumnEncryptMd(TRUE, FALSE, "md_a")}

WriterPropertiesChoices ==
    {WriterProperties(NoFileEncryption, EmptyMap)}
    \cup {WriterProperties(file_encryption, "a" :> encrypt_md) :
            file_encryption \in WriterFileEncryptions, encrypt_md \in WriterColumnChoices}

WriterContents == {NoColumnMetaData, [NoColumnMetaData EXCEPT !.isset_encoding_stats = TRUE]}

WriterEncryptions ==
    {EncryptionProperties(key, createModuleAAD("u", "ColumnMetaData", 1, 1, -1)) :
        key \in {"kf", "ka"}}

MbNext ==
    \/ \E props \in WriterPropertiesChoices : FileMetaDataBuilder(props)
    \/ AppendRowGroup
    \/ \E num_rows \in 0..1 : set_num_rows(num_rows)
    \/ \E path \in {"a", "b"}, contents \in WriterContents :
          ColumnChunkMetaDataBuilder(path, contents)
    \/ SetStatistics
    \/ \E num_values \in 1..2 : ColumnChunkMetaDataBuilder_Finish(num_values)
    \/ \E encryption \in WriterEncryptions : ColumnChunkMetaDataBuilder_WriteTo(encryption)
    \/ FileMetaDataBuilder_Finish(SigningAlgorithmOf(writer_properties_),
                                  SigningKeyMetadataOf(writer_properties_))
    \/ BuildFileCryptoMetaData

\* The footer of the file being written is encrypted; it is plaintext and
\* signed.
WritesEncryptedFooter ==
    ~writer_properties_.file_encryption.null
    /\ writer_properties_.file_encryption.encrypted_footer

WritesSignedFooter ==
    ~writer_properties_.file_encryption.null
    /\ ~writer_properties_.file_encryption.encrypted_footer

C20_MetaDataOnlyWithPlaintextFooter ==
    (mb_res.op = "WriteTo" /\ column_chunk_.isset_encrypted_column_metadata)
      => /\ column_chunk_.isset_meta_data <=> FooterEncryptionIsNull(writer_properties_)
         /\ column_chunk_.isset_meta_data
               => /\ column_chunk_.meta_data = Redacted(column_metadata_)
                  /\ ~column_chunk_.meta_data.isset_statistics
                  /\ ~column_chunk_.meta_data.isset_encoding_stats

-----------------------------------------------------------------------------
(* RowGroupMetaDataBuilder: the column chunk builders of one row group.     *)

MaxSchemaColumns == 2
MaxNextCalls == 4

\* SchemaDescriptor: num_columns()
Schema(num_columns) == [null |-> FALSE, num_columns |-> num_columns]

NoSchema == [Schema(0) EXCEPT !.null = TRUE]

\* format::ColumnChunk of the row group: file_offset
RowGroupColumn(file_offset) == [file_offset |-> file_offset]

\* format::RowGroup after InitializeColumns(ncols): columns.resize(ncols)
InitializeColumns(ncols) ==
    [columns |-> [i \in 1..ncols |-> RowGroupColumn(0)],
     file_offset |-> 0, total_compressed_size |-> 0, total_byte_size |-> 0,
     ordinal |-> 0, isset_ordinal |-> FALSE]

\* RowGroupMetaDataBuilderImpl::num_columns
num_columns == Len(row_group_.columns)

\* A ColumnChunkMetaDataBuilder handed out: the schema column it was made
\* for (0-based, as schema_->Column(i)) and its total_compressed_size().
ColumnBuilder(column, total_compressed_size) ==
    [column |-> column, total_compressed_size |-> total_compressed_size]

\* The last call: the column of the builder returned (-1: none), and
\* current_column_ and the ordinal of the row group before the call.
RgRes(op, kind, what, column, current_column_before, ordinal_before, isset_ordinal_before, row_group_ordinal) ==
    [op |-> op, kind |-> kind, what |-> what, column |-> column,
     current_column_before |-> current_column_before,
     ordinal_before |-> ordinal_before,
     isset_ordinal_before |-> isset_ordinal_before,
     row_group_ordinal |-> row_group_ordinal]

NoRgRes == RgRes("none", "ok", "", -1, 0, 0, FALSE, 0)

\* RowGroupMetaDataBuilderImpl(props, schema, contents)
RowGroupMetaDataBuilder(schema) ==
    /\ schema_' = schema
    /\ current_column_' = 0
    /\ row_group_' = InitializeColumns(schema.num_columns)
    /\ column_builders_' = <<>>
    /\ rg_calls' = 0
    /\ rg_res' = RgRes("RowGroupMetaDataBuilder", "ok", "", -1, 0, 0, FALSE, 0)
    /\ UNCHANGED notRg

\* RowGroupMetaDataBuilderImpl::NextColumnChunk
NextColumnChunk ==
    /\ ~schema_.null
    /\ rg_calls < MaxNextCalls
    /\ rg_calls' = rg_calls + 1
    /\ IF ~(current_column_ < num_columns)
       THEN /\ rg_res' = RgRes("NextColumnChunk", "ParquetException",
                               "The schema only has fewer columns", -1, current_column_,
                               row_group_.ordinal, row_group_.isset_ordinal, 0)
            /\ UNCHANGED <<current_column_, column_builders_>>
       ELSE /\ column_builders_' = Append(column_builders_, ColumnBuilder(current_column_, 0))
            /\ current_column_' = current_column_ + 1
            /\ rg_res' = RgRes("NextColumnChunk", "ok", "", current_column_, current_column_,
                               row_group_.ordinal, row_group_.isset_ordinal, 0)
    /\ UNCHANGED <<schema_, row_group_>>
    /\ UNCHANGED notRg

\* ColumnChunkMetaDataBuilderImpl::Finish of the k-th builder handed out:
\* file_offset of its column chunk and total_compressed_size.
ColumnBuilder_Finish(k, dictionary_page_offset, data_page_offset, compressed_size) ==
    /\ ~schema_.null
    /\ k \in 1..Len(column_builders_)
    /\ LET column == column_builders_[k].column
           file_offset == IF dictionary_page_offset > 0
                          THEN dictionary_page_offset + compressed_size
                          ELSE data_page_offset + compressed_size
       IN /\ row_group_' = [row_group_ EXCEPT !.columns[column + 1].file_offset = file_offset]
          /\ column_builders_' =
                [column_builders_ EXCEPT ![k].total_compressed_size = compressed_size]
    /\ rg_res' = RgRes("ColumnChunkMetaDataBuilder::Finish", "ok", "", -1, current_column_,
                       row_group_.ordinal, row_group_.isset_ordinal, 0)
    /\ UNCHANGED <<schema_, current_column_, rg_calls>>
    /\ UNCHANGED notRg

\* The first column of the row group with file_offset < 0, or 0.
FirstIncompleteColumn ==
    IF \E i \in 1..schema_.num_columns : ~(row_group_.columns[i].file_offset >= 0)
    THEN CHOOSE i \in 1..schema_.num_columns :
            /\ ~(row_group_.columns[i].file_offset >= 0)
            /\ \A j \in 1..(i - 1) : row_group_.columns[j].file_offset >= 0
    ELSE 0

RECURSIVE SumCompressedSize(_)
SumCompressedSize(builders) ==
    IF builders = <<>> THEN 0
    ELSE Head(builders).total_compressed_size + SumCompressedSize(Tail(builders))

\* A Finish that records the ordinal before it looks at current_column_.
RowGroupMetaDataBuilder_Finish_OrdinalFirst(total_bytes_written, row_group_ordinal) ==
    /\ ~schema_.null
    /\ row_group_' = [row_group_ EXCEPT !.ordinal = row_group_ordinal,
                                       !.isset_ordinal = TRUE]
    /\ rg_res' = RgRes("Finish",
                       IF current_column_ = schema_.num_columns THEN "ok"
                       ELSE "ParquetException", "", -1, current_column_,
                       row_group_.ordinal, row_group_.isset_ordinal, row_group_ordinal)
    /\ UNCHANGED <<schema_, current_column_, column_builders_, rg_calls>>
    /\ UNCHANGED notRg

\* RowGroupMetaDataBuilderImpl::Finish(total_bytes_written, row_group_ordinal)
RowGroupMetaDataBuilder_Finish(total_bytes_written, row_group_ordinal) ==
    /\ ~schema_.null
    /\ IF ~(current_column_ = schema_.num_columns)
       THEN /\ rg_res' = RgRes("Finish", "ParquetException", "columns are initialized",
                               -1, current_column_, row_group_.ordinal,
                               row_group_.isset_ordinal, row_group_ordinal)
            /\ UNCHANGED row_group_
       ELSE IF FirstIncompleteColumn # 0
       THEN /\ rg_res' = RgRes("Finish", "ParquetException", "is not complete",
                               -1, current_column_, row_group_.ordinal,
                               row_group_.isset_ordinal, row_group_ordinal)
            /\ UNCHANGED row_group_
       ELSE /\ row_group_' =
                  [row_group_ EXCEPT
                      !.file_offset = IF schema_.num_columns > 0
                                      THEN row_group_.columns[1].file_offset ELSE 0,
                      !.total_compressed_size = SumCompressedSize(column_builders_),
                      !.total_byte_size = total_bytes_written,
                      !.ordinal = row_group_ordinal,
                      !.isset_ordinal = TRUE]
            /\ rg_res' = RgRes("Finish", "ok", "", -1, current_column_,
                               row_group_.ordinal, row_group_.isset_ordinal,
                               row_group_ordinal)
    /\ UNCHANGED <<schema_, current_column_, column_builders_, rg_calls>>
    /\ UNCHANGED notRg

RgNext ==
    \/ \E n \in 0..MaxSchemaColumns : RowGroupMetaDataBuilder(Schema(n))
    \/ NextColumnChunk
    \/ \E k \in 1..MaxSchemaColumns, dictionary_page_offset \in 0..1, data_page_offset \in -1..0, compressed_size \in 0..1 :
          ColumnBuilder_Finish(k, dictionary_page_offset, data_page_offset, compressed_size)
    \/ \E total_bytes_written \in 0..1, row_group_ordinal \in 0..1 :
          RowGroupMetaDataBuilder_Finish(total_bytes_written, row_group_ordinal)

\* C30: the builders are handed out in schema order: the k-th NextColumnChunk
\* call returns the builder of column k-1 while k <= num_columns; a call after
\* all num_columns builders were handed out throws and leaves current_column
\* as it was; Finish throws unless exactly num_columns builders were handed
\* out, it leaves the ordinal of the row group alone when it throws and
\* records the given ordinal when it returns.
C30_BuildersInSchemaOrder ==
    /\ rg_res.op = "NextColumnChunk"
          => IF rg_calls <= num_columns
             THEN /\ rg_res.kind = "ok"
                  /\ rg_res.column = rg_calls - 1
                  /\ Len(column_builders_) = rg_calls
                  /\ column_builders_[rg_calls].column = rg_calls - 1
             ELSE /\ rg_res.kind = "ParquetException"
                  /\ Len(column_builders_) = num_columns
                  /\ current_column_ = rg_res.current_column_before
    /\ ~schema_.null
          => /\ \A k \in 1..Len(column_builders_) : column_builders_[k].column = k - 1
             /\ current_column_ = Len(column_builders_)
             /\ num_columns = schema_.num_columns
    /\ rg_res.op = "Finish"
          => /\ Len(column_builders_) # num_columns => rg_res.kind = "ParquetException"
             /\ rg_res.kind = "ParquetException"
                   => /\ row_group_.ordinal = rg_res.ordinal_before
                      /\ row_group_.isset_ordinal = rg_res.isset_ordinal_before
             /\ rg_res.kind = "ok"
                   => /\ row_group_.isset_ordinal
                      /\ row_group_.ordinal = rg_res.row_group_ordinal

\* both builders of a row group of two columns were handed out, a third
\* NextColumnChunk call threw, and Finish then recorded ordinal 1
C30_Witness ==
    /\ rg_res.op = "Finish"
    /\ rg_res.kind = "ok"
    /\ schema_.num_columns = 2
    /\ Len(column_builders_) = 2
    /\ rg_calls = 3
    /\ row_group_.ordinal = 1
    /\ rg_res.row_group_ordinal = 1
    /\ ~rg_res.isset_ordinal_before

-----------------------------------------------------------------------------
(* Specifications, one per component.                                       *)

\* The state after construction: an empty cache whose cleanup timestamp is the
\* construction time, and no call made yet in any component.
Init ==
    /\ now = 0
    /\ cache_ = EmptyMap
    /\ last_cache_cleanup_timestamp_ = 0
    /\ cache_ret = NoRet
    /\ cache_check = NoCacheCheck
    /\ km_pc = "start"
    /\ key_material = NoKeyMaterial
    /\ key_material_string = JsonParseError
    /\ km_edits = 0
    /\ km_parsed = NoParse
    /\ master_key_map_ = EmptyMap
    /\ new_master_key_map_ = EmptyMap
    /\ kms_rot = "none"
    /\ kms_wrapped = NoWrapped
    /\ kms_res = KmsRes("none", "", "ok", "")
    /\ ck_call = NoCkCall
    /\ builder = NewBuilder
    /\ built_config = NullConfig
    /\ fac_res = NoFacRes
    /\ properties_ = NoEncryptorProperties
    /\ meta_encryptor_ = EmptyMap
    /\ data_encryptor_ = EmptyMap
    /\ enc_res = NoEncRes
    /\ source_ = NoSource
    /\ reader_properties_ = NoReaderProperties
    /\ file_metadata_ = NoFileMetaData
    /\ file_crypto_metadata_ = NoFileCryptoMetaData
    /\ rd_log = <<>>
    /\ rd_res = NoRdRes
    /\ row_group_ordinal_ = 0
    /\ rd_key_calls = NoKeyCalls
    /\ writer_properties_ = NoWriterProperties
    /\ metadata_ = NoFileMetaData
    /\ crypto_metadata_ = NoFileCryptoMetaData
    /\ row_groups_ = <<>>
    /\ column_ = ""
    /\ column_metadata_ = NoColumnMetaData
    /\ column_chunk_ = NewColumnChunk(NoColumnMetaData)
    /\ finished_file_metadata = NoFileMetaData
    /\ built_file_crypto_metadata = NoFileCryptoMetaData
    /\ mb_res = NoMbRes
    /\ schema_ = NoSchema
    /\ row_group_ = InitializeColumns(0)
    /\ current_column_ = 0
    /\ column_builders_ = <<>>
    /\ rg_calls = 0
    /\ rg_res = NoRgRes

SpecCache == Init /\ [][CacheNext]_vars

SpecKeyMaterial == Init /\ [][KmNext]_vars

SpecKms == Init /\ [][KmsNext]_vars

SpecColumnKeys == Init /\ [][CkNext]_vars

SpecFactory == Init /\ [][FacNext]_vars

SpecEncryptor == Init /\ [][EncNext]_vars

SpecParse == Init /\ [][ParseNext]_vars

SpecReader == Init /\ [][ReaderNext]_vars

SpecMetadataBuilder == Init /\ [][MbNext]_vars

SpecRowGroupBuilder == Init /\ [][RgNext]_vars

=============================================================================
